---- MODULE Spec2Model ----
(***************************************************************************)
(* A model of the xsynth core: the channel dispatch matrix                 *)
(* (core/src/channel/channel_sf.rs), the SFZ sample soundfont table        *)
(* (core/src/soundfont/mod.rs), the sample reader and stereo sampler       *)
(* (core/src/voice/sampler.rs) and the voice base                          *)
(* (src/core/channel/voice/base.rs).                                       *)
(*                                                                         *)
(* Option<T> is modelled as a sequence: None is <<>>, Some(x) is <<x>>.    *)
(* The 128 x 128 key/velocity grid is scaled to (MaxKey+1) x (MaxVel+1).   *)
(***************************************************************************)
EXTENDS Integers, Sequences, FiniteSets, TLC

VARIABLES
    soundfonts,     \* ChannelSoundfont.soundfonts: the ordered soundfont list
    matrix,         \* ChannelSoundfont.matrix: cell -> [attack, release]
    curr_bank,      \* ChannelSoundfont.curr_bank: Option<u8>
    curr_preset,    \* ChannelSoundfont.curr_preset: Option<u8>
    lastCall,       \* the last ChannelSoundfont call and what it did
    sfz_regions,            \* the RegionParams list parse_soundfont returns
    sfz_files,              \* the files on disk: is the SFZ readable, which samples do not decode
    load_result,            \* what SampleSoundfont::new returned: "none" before the call
    sf_loaded,              \* SampleSoundfont::new has returned Ok
    spawner_params_list,    \* SampleSoundfont.spawner_params_list
    unique_envelope_params, \* the deduplicated envelopes the cells share
    shared_envelopes,       \* the EnvelopeParameters behind each shared Arc<RwLock<..>>
    spawned_voices,         \* the voices spawn_voice has produced, in spawn order
    spawned,                \* the last get_*_voice_spawners_at call and its result
    build,          \* the cargo profile: "debug" checks integer overflow, "release" wraps
    reader,         \* a SampleReader: buffer, length, loop_params
    got,            \* the last SampleReader::get call and its result
    past,           \* the last SampleReader::is_past_end call and its result
    voice,          \* a VoiceBase over sampler and envelope
    shadow,         \* the same voice, given only the first signal_release
    signals,        \* the signal_release calls the voice has received
    endedLog,       \* what the ended() calls on the voice have returned
    graph,          \* a SIMDStereoVoiceCutoff over the voice generator
    graphLog,       \* the last call on the cutoff wrapper
    sf_list,        \* what parse_list returns: the configured soundfont paths
    sf_loadable,    \* the paths on which SampleSoundfont::new returns Ok
    SOUNDFONTS,     \* static SOUNDFONTS: the paths of the loaded soundfonts
    GLOBAL_SYNTH,   \* static GLOBAL_SYNTH: the soundfonts sent to the channels
    kdCall,         \* the last KDMAPI call and how it ended
    stats_threads,  \* the stats-polling threads spawned so far: the killed flag
                    \* each holds and whether the thread still runs
    CURRENT_VOICE_COUNT,    \* static CURRENT_VOICE_COUNT and the thread that wrote it
    pool,           \* the channel's voices, oldest first
    pool_options,   \* ChannelInitOptions: voice limit and fade_out_killing;
                    \* XSynthRealtimeConfig: ignore_range
    poolLog,        \* the last call on the channel voice pool
    numCall,        \* the last evaluation of the pitch or the amp law
    current_group,      \* parse_sf_root: the header the tokens are under
    group_data_stack,   \* parse_sf_root: the RegionParamsBuilder of each open level
    built_regions,      \* parse_sf_root: regions, the RegionParams built so far
    parseLog            \* the opcodes read under the header open at each level,
                        \* whether the input has ended, whether an unwrap failed

chanVars == <<soundfonts, matrix, curr_bank, curr_preset, lastCall>>

sfVars == <<sfz_regions, sfz_files, load_result, sf_loaded, spawner_params_list,
            unique_envelope_params, shared_envelopes, spawned_voices, spawned>>

rdVars == <<build, reader, got, past>>

vcVars == <<voice, shadow, signals, endedLog>>

gfVars == <<graph, graphLog>>

kdVars == <<sf_list, sf_loadable, SOUNDFONTS, GLOBAL_SYNTH, kdCall, stats_threads,
            CURRENT_VOICE_COUNT>>

plVars == <<pool, pool_options, poolLog>>

nmVars == <<numCall>>

pzVars == <<current_group, group_data_stack, built_regions, parseLog>>

vars == <<chanVars, sfVars, rdVars, vcVars, gfVars, kdVars, plVars, nmVars, pzVars>>

(***************************************************************************)
(* Bounds.                                                                 *)
(***************************************************************************)
MaxKey == 1
MaxVel == 1
MaxBank == 2
MaxPreset == 1
NumSf == 3
MaxSfs == 2
MaxRegions == 2
MaxSpawned == 2
MaxPaths == 2
MaxListed == 2
MaxThreads == 2
MaxLines == 3
MaxPool == 3
MaxTokens == 7
MaxLen == 3
MaxOffset == 2
MaxPos == 8
UsizeBits == 5
Lanes == 2
TimeDen == 2
MaxSpeed == 3
MaxTime == 12

Keys == 0..MaxKey
Vels == 0..MaxVel
Banks == 0..MaxBank
Presets == 0..MaxPreset
Cells == Keys \X Vels

None == <<>>
Some(x) == <<x>>

(***************************************************************************)
(* The soundfonts a channel can be given (dyn SoundfontBase).  Soundfont 1 *)
(* serves bank 1 preset 0 only, soundfont 2 serves bank 0 preset 0 (with a *)
(* layered cell at key 0), soundfont 3 is an SFZ sample soundfont, which   *)
(* ignores bank and preset and has no release spawners; any further        *)
(* soundfont is empty.                                                     *)
(***************************************************************************)
Spawner(kind, s, b, p, k, v, n) ==
    [kind |-> kind, sf |-> s, bank |-> b, preset |-> p, key |-> k, vel |-> v, n |-> n]

get_attack_voice_spawners_at(s, b, p, k, v) ==
    CASE s = 1 /\ b = 1 /\ p = 0 -> <<Spawner("attack", 1, b, p, k, v, 1)>>
      [] s = 2 /\ b = 0 /\ p = 0 ->
            IF k = 0
            THEN <<Spawner("attack", 2, b, p, k, v, 1), Spawner("attack", 2, b, p, k, v, 2)>>
            ELSE <<Spawner("attack", 2, b, p, k, v, 1)>>
      [] s = 3 /\ k = MaxKey /\ v >= 1 -> <<Spawner("attack", 3, 0, 0, k, v, 1)>>
      [] OTHER -> <<>>

get_release_voice_spawners_at(s, b, p, k, v) ==
    CASE s = 1 /\ b = 1 /\ p = 0 /\ k = 0 -> <<Spawner("release", 1, b, p, k, v, 1)>>
      [] s = 2 /\ b = 0 /\ p = 0 /\ v = 0 -> <<Spawner("release", 2, b, p, k, v, 1)>>
      [] OTHER -> <<>>

SfQuery(kind, s, b, p, k, v) ==
    IF kind = "attack"
    THEN get_attack_voice_spawners_at(s, b, p, k, v)
    ELSE get_release_voice_spawners_at(s, b, p, k, v)

RECURSIVE SeqsUpTo(_, _)
SeqsUpTo(S, n) ==
    IF n = 0 THEN {<<>>}
    ELSE LET shorter == SeqsUpTo(S, n - 1)
         IN  shorter \cup {Append(q, x) : q \in shorter, x \in S}

SoundfontLists == SeqsUpTo(1..NumSf, MaxSfs)

(***************************************************************************)
(* Iterator helpers: `find(|vec| !vec.is_empty())` over a lazily mapped    *)
(* sequence.  FindPos is the 1-based position of the first non-empty item, *)
(* or 0; the number of items the lazy iterator evaluates follows from it.  *)
(***************************************************************************)
RECURSIVE FindPosFrom(_, _)
FindPosFrom(items, i) ==
    IF i > Len(items) THEN 0
    ELSE IF items[i] # <<>> THEN i
    ELSE FindPosFrom(items, i + 1)

FindPos(items) == FindPosFrom(items, 1)

\* Option<Vec>: the item found, or None.
Find(items) ==
    LET i == FindPos(items) IN IF i = 0 THEN None ELSE Some(items[i])

\* How many items a find() pulls from the mapped iterator.
Pulled(items) ==
    LET i == FindPos(items) IN IF i = 0 THEN Len(items) ELSE i

\* self.soundfonts.iter().map(|sf| sf.get_*_voice_spawners_at(b, p, k, v))
Mapped(sfs, kind, b, p, k, v) ==
    [i \in 1..Len(sfs) |-> SfQuery(kind, sfs[i], b, p, k, v)]

\* find_piano_attack / find_piano_release: Option<Vec<spawner>>
find_piano(sfs, kind, k, v) == Find(Mapped(sfs, kind, 0, 0, k, v))

\* A rebuild that forgets the piano fallback.
CellSpawnersNoFallback(sfs, kind, b, p, k, v) ==
    LET first == Find(Mapped(sfs, kind, b, p, k, v))
    IN  IF first # None THEN first[1] ELSE <<>>

\* .chain(iter::once_with(find_piano).flatten()).find(non-empty).unwrap_or_default()
CellSpawners(sfs, kind, b, p, k, v) ==
    LET primary == Mapped(sfs, kind, b, p, k, v)
        first == Find(primary)
    IN  IF first # None THEN first[1]
        ELSE LET chained == find_piano(sfs, kind, k, v)   \* flatten: 0 or 1 item
                 second == Find(chained)
             IN  IF second # None THEN second[1] ELSE <<>>

\* The soundfont queries one cell's resolution makes (the chain is lazy: the
\* piano closure runs only when every primary list was empty).
CellQueries(sfs, kind, b, p, k, v) ==
    LET primary == Mapped(sfs, kind, b, p, k, v)
    IN  IF FindPos(primary) # 0 THEN Pulled(primary)
        ELSE Len(primary) + Pulled(Mapped(sfs, kind, 0, 0, k, v))

RECURSIVE SumOver(_, _)
SumOver(S, f) ==
    IF S = {} THEN 0
    ELSE LET x == CHOOSE y \in S : TRUE IN f[x] + SumOver(S \ {x}, f)

EmptyMatrix == [c \in Cells |-> [attack |-> <<>>, release |-> <<>>]]

\* The loop of rebuild_matrix: every cell set from the current soundfonts.
BuiltMatrix(sfs, b, p) ==
    [c \in Cells |->
        [attack |-> CellSpawners(sfs, "attack", b, p, c[1], c[2]),
         release |-> CellSpawners(sfs, "release", b, p, c[1], c[2])]]

BuildQueries(sfs, b, p) ==
    SumOver(Cells, [c \in Cells |->
        CellQueries(sfs, "attack", b, p, c[1], c[2])
        + CellQueries(sfs, "release", b, p, c[1], c[2])])

\* The loop's outcome, tabulated once for every soundfont list and program.
RebuildLoop ==
    [sfs \in SoundfontLists, b \in Banks, p \in Presets |->
        [matrix |-> BuiltMatrix(sfs, b, p), queries |-> BuildQueries(sfs, b, p)]]

\* An early return that compares the current preset with the bank.
RebuildSkipsBankTwice(cb, cp, b, p) == cb = Some(b) /\ cp = Some(b)

\* The early return of rebuild_matrix.
RebuildSkips(cb, cp, b, p) == cb = Some(b) /\ cp = Some(p)

\* What rebuild_matrix leaves in curr_bank / curr_preset when it does not skip.
RebuildBank(b) == Some(b)
RebuildPreset(p) == Some(p)

\* rebuild_matrix(bank, preset) run on soundfont list sfs with the current
\* program (cb, cp) and matrix m: the new matrix, program and the work done.
rebuild_matrix(sfs, m, cb, cp, b, p) ==
    IF RebuildSkips(cb, cp, b, p)
    THEN [matrix |-> m, curr_bank |-> cb, curr_preset |-> cp,
          skipped |-> TRUE, queries |-> 0]
    ELSE [matrix |-> RebuildLoop[sfs, b, p].matrix,
          curr_bank |-> RebuildBank(b), curr_preset |-> RebuildPreset(p),
          skipped |-> FALSE, queries |-> RebuildLoop[sfs, b, p].queries]

\* The call a lastCall record stands for: <<operation, bank, preset>>.
CallOf(call) == <<call.op, call.bank, call.preset>>

ChanIdle ==
    /\ soundfonts = <<>>
    /\ matrix = EmptyMatrix
    /\ curr_bank = None
    /\ curr_preset = None
    /\ lastCall = [op |-> "new", bank |-> 0, preset |-> 0, skipped |-> FALSE,
                   queries |-> 0, prev |-> <<"new", 0, 0>>]

\* A set_soundfonts that keeps curr_bank and curr_preset as they are.
set_soundfonts_keep_program(sfs) ==
    LET r == rebuild_matrix(sfs, matrix, curr_bank, curr_preset, 0, 0)
    IN  /\ soundfonts' = sfs
        /\ matrix' = r.matrix
        /\ curr_bank' = r.curr_bank
        /\ curr_preset' = r.curr_preset
        /\ lastCall' = [op |-> "set_soundfonts", bank |-> 0, preset |-> 0,
                        skipped |-> r.skipped, queries |-> r.queries,
                        prev |-> CallOf(lastCall)]

\* set_soundfonts: curr_bank and curr_preset are set to None, then
\* rebuild_matrix(0, 0) runs.
set_soundfonts(sfs) ==
    LET r == rebuild_matrix(sfs, matrix, None, None, 0, 0)
    IN  /\ soundfonts' = sfs
        /\ matrix' = r.matrix
        /\ curr_bank' = r.curr_bank
        /\ curr_preset' = r.curr_preset
        /\ lastCall' = [op |-> "set_soundfonts", bank |-> 0, preset |-> 0,
                        skipped |-> r.skipped, queries |-> r.queries,
                        prev |-> CallOf(lastCall)]

change_program(b, p) ==
    LET r == rebuild_matrix(soundfonts, matrix, curr_bank, curr_preset, b, p)
    IN  /\ soundfonts' = soundfonts
        /\ matrix' = r.matrix
        /\ curr_bank' = r.curr_bank
        /\ curr_preset' = r.curr_preset
        /\ lastCall' = [op |-> "change_program", bank |-> b, preset |-> p,
                        skipped |-> r.skipped, queries |-> r.queries,
                        prev |-> CallOf(lastCall)]

SetSoundfonts ==
    /\ \E sfs \in SoundfontLists : set_soundfonts(sfs)
    /\ UNCHANGED <<sfVars, rdVars, vcVars, gfVars, kdVars, plVars, nmVars, pzVars>>

ChangeProgram ==
    /\ \E b \in Banks, p \in Presets : change_program(b, p)
    /\ UNCHANGED <<sfVars, rdVars, vcVars, gfVars, kdVars, plVars, nmVars, pzVars>>

(***************************************************************************)
(* The SFZ sample soundfont (core/src/soundfont/mod.rs).                   *)
(*                                                                         *)
(* A region is the RegionParams SampleSoundfont::new reads: keyrange,      *)
(* velrange, pitch_keycenter, cutoff, sample_path and the ampeg envelope.  *)
(* Times are in milliseconds; 0.001 s is 1.                                *)
(***************************************************************************)
Max(a, b) == IF a >= b THEN a ELSE b

\* The opcode bundles a region can carry besides its ranges.
RegionKinds == 1..3

RegionOfKind(kind, keyrange, velrange) ==
    [keyrange |-> keyrange,
     velrange |-> velrange,
     pitch_keycenter |-> CASE kind = 1 -> None [] kind = 2 -> Some(0) [] OTHER -> Some(MaxKey),
     cutoff |-> IF kind = 2 THEN Some(1) ELSE None,
     sample_path |-> IF kind = 2 THEN 2 ELSE 1,
     ampeg_envelope |-> [ampeg_attack |-> 0,
                         ampeg_release |-> CASE kind = 1 -> 0 [] kind = 2 -> 8 [] OTHER -> 4]]

\* Key ranges: every key, one key (lokey = hikey), and the empty range 1..=0.
KeyRanges == {<<0, MaxKey>>} \cup {<<k, k>> : k \in Keys} \cup {<<1, 0>>}

\* Velocity ranges: the whole range (the builder default) or the top velocity.
VelRanges == {<<0, MaxVel>>, <<MaxVel, MaxVel>>}

Regions == {RegionOfKind(kind, kr, vr) : kind \in RegionKinds, kr \in KeyRanges, vr \in VelRanges}

RegionLists == SeqsUpTo(Regions, MaxRegions)

\* for x in range.clone(), range a RangeInclusive<u8>; the mutant iterates lo..hi.
RangeExclusive(r) == r[1]..(r[2] - 1)

RangeInclusive(r) == r[1]..r[2]

\* key * 128 + vel, the 128 scaled to the number of velocities.
key_vel_to_index(key, vel) == key * (MaxVel + 1) + vel

TableIndexes == 0..((MaxKey + 1) * (MaxVel + 1) - 1)

\* FREQS[key] / FREQS[base_key], kept as the pair of table indexes.
\* The quotient taken the other way round.
get_speed_mult_from_keys_inverted(key, base_key) == <<base_key, key>>

get_speed_mult_from_keys(key, base_key) == <<key, base_key>>

sample_cache_from_region_params(region) == [path |-> region.sample_path]

\* (env.ampeg_release / 4.0).max(0.001); the other fields are rescaled only.
envelope_descriptor_from_region_params(region) ==
    [attack |-> region.ampeg_envelope.ampeg_attack,
     release |-> Max(region.ampeg_envelope.ampeg_release \div 4, 1)]

\* The sample files the regions name, and the states the files can be in.
FileStates ==
    [readable : BOOLEAN,
     broken : SUBSET {RegionOfKind(kind, <<0, 0>>, <<0, 0>>).sample_path :
                         kind \in RegionKinds}]

AllFilesGood == [readable |-> TRUE, broken |-> {}]

\* parse_soundfont(sfz_path)?: canonicalize and parse_all_tokens fail with an
\* io::Error on a file that cannot be read.
parse_soundfont(files, regions) ==
    IF files.readable THEN [ok |-> TRUE, regions |-> regions]
    ELSE [ok |-> FALSE, regions |-> <<>>]

\* A loader that skips the samples that do not decode.
load_samples_lenient(files, regions) ==
    [ok |-> TRUE,
     samples |-> {sample_cache_from_region_params(regions[i]).path : i \in DOMAIN regions}
                     \ files.broken]

\* The parallel load of the unique sample paths, collected into a Result:
\* one load_audio_file error makes the whole collection an Err.
load_samples(files, regions) ==
    LET unique_sample_params ==
            {sample_cache_from_region_params(regions[i]).path : i \in DOMAIN regions}
    IN  IF unique_sample_params \cap files.broken # {}
        THEN [ok |-> FALSE, samples |-> {}]
        ELSE [ok |-> TRUE, samples |-> unique_sample_params]

\* envelope_descriptor.to_envelope_params(sample_rate): the stage lengths in
\* samples, one sample per millisecond.
to_envelope_params(d) == [attack |-> d.attack, release |-> d.release]

\* samples[&params]: every unique sample path decoded once.
LoadedSample(cache) == [decoded |-> cache.path]

\* The loop that finds the unique envelope descriptors, in region order.
RECURSIVE UniqueEnvelopes(_, _, _)
UniqueEnvelopes(regions, i, acc) ==
    IF i > Len(regions) THEN acc
    ELSE LET d == envelope_descriptor_from_region_params(regions[i])
             exists == \E j \in DOMAIN acc : acc[j] = d
         IN  UniqueEnvelopes(regions, i + 1, IF exists THEN acc ELSE Append(acc, d))

\* unique_envelope_params.iter().find(|e| e.0 == envelope).unwrap(): the
\* position of the shared envelope in the list.
FindEnvelope(unique, d) ==
    CHOOSE j \in DOMAIN unique : unique[j] = d /\ \A i \in 1..(j - 1) : unique[i] # d

\* The SampleVoiceSpawnerParams built for one cell of one region.
SpawnerParams(region, unique, key) ==
    [speed_mult |-> get_speed_mult_from_keys(key,
                        IF region.pitch_keycenter = None THEN key ELSE region.pitch_keycenter[1]),
     cutoff |-> region.cutoff,
     envelope |-> FindEnvelope(unique, envelope_descriptor_from_region_params(region)),
     sample |-> LoadedSample(sample_cache_from_region_params(region))]

\* A store that keeps what an earlier region wrote.
StoreCellKeepFirst(old, params) == IF old # None THEN old ELSE Some(params)

\* spawner_params_list[index] = Some(spawner_params.clone())
StoreCell(old, params) == Some(params)

\* The cells one region writes: for key in keyrange, for vel in velrange.
WriteRegion(table, region, unique) ==
    [idx \in TableIndexes |->
        IF \E key \in RangeInclusive(region.keyrange), vel \in RangeInclusive(region.velrange) :
               key_vel_to_index(key, vel) = idx
        THEN LET key == CHOOSE k \in RangeInclusive(region.keyrange) :
                            \E vel \in RangeInclusive(region.velrange) :
                                key_vel_to_index(k, vel) = idx
             IN  StoreCell(table[idx], SpawnerParams(region, unique, key))
        ELSE table[idx]]

\* for region in regions { ... }
RECURSIVE WriteRegions(_, _, _, _)
WriteRegions(table, regions, i, unique) ==
    IF i > Len(regions) THEN table
    ELSE WriteRegions(WriteRegion(table, regions[i], unique), regions, i + 1, unique)

NoSpawners == [call |-> "none", key |-> 0, vel |-> 0, vec |-> <<>>]

\* SampleSoundfont::new(sfz_path, stream_params), stream_params stereo.
SampleSoundfont_new(files, file_regions) ==
    LET parsed == parse_soundfont(files, file_regions)
        regions == parsed.regions
        samples == load_samples(files, regions)
        unique == UniqueEnvelopes(regions, 1, <<>>)
    IN  IF ~parsed.ok
        THEN /\ load_result' = "IOError"
             /\ UNCHANGED <<sf_loaded, unique_envelope_params, shared_envelopes,
                            spawner_params_list>>
        ELSE IF ~samples.ok
        THEN /\ load_result' = "AudioLoadError"
             /\ UNCHANGED <<sf_loaded, unique_envelope_params, shared_envelopes,
                            spawner_params_list>>
        ELSE /\ load_result' = "Ok"
             /\ sf_loaded' = TRUE
             /\ unique_envelope_params' = unique
             /\ shared_envelopes' = [j \in DOMAIN unique |-> to_envelope_params(unique[j])]
             /\ spawner_params_list'
                  = WriteRegions([idx \in TableIndexes |-> None], regions, 1, unique)

\* SampledVoiceSpawner::new(params, vel, stream_params)
SampledVoiceSpawner_new(params, vel) ==
    [speed_mult |-> params.speed_mult,
     cutoff |-> params.cutoff,
     volume_envelope_params |-> params.envelope,
     samples |-> params.sample,
     vel |-> vel]

\* A lookup that finds nothing.
SampleGetAttackNothing(table, key, vel) == <<>>

\* SampleSoundfont::get_attack_voice_spawners_at(key, vel)
SampleGetAttack(table, key, vel) ==
    LET spawner_params == table[key_vel_to_index(key, vel)]
    IN  IF spawner_params # None
        THEN <<SampledVoiceSpawner_new(spawner_params[1], vel)>>
        ELSE <<>>

\* SampleSoundfont::get_release_voice_spawners_at(_key, _vel)
SampleGetRelease(table, key, vel) == <<>>

\* Nothing constructed yet.
SfFresh ==
    /\ load_result = "none"
    /\ sf_loaded = FALSE
    /\ spawner_params_list = [idx \in TableIndexes |-> None]
    /\ unique_envelope_params = <<>>
    /\ shared_envelopes = <<>>
    /\ spawned_voices = <<>>
    /\ spawned = NoSpawners

SfIdle ==
    /\ sfz_regions = <<>>
    /\ sfz_files = AllFilesGood
    /\ SfFresh

New ==
    /\ load_result = "none"
    /\ SampleSoundfont_new(sfz_files, sfz_regions)
    /\ UNCHANGED <<sfz_regions, sfz_files, spawned_voices, spawned>>
    /\ UNCHANGED <<chanVars, rdVars, vcVars, gfVars, kdVars, plVars, nmVars, pzVars>>

GetAttack ==
    /\ sf_loaded
    /\ \E key \in Keys, vel \in Vels :
         spawned' = [call |-> "attack", key |-> key, vel |-> vel,
                     vec |-> SampleGetAttack(spawner_params_list, key, vel)]
    /\ UNCHANGED <<sfz_regions, sfz_files, load_result, sf_loaded, spawner_params_list,
                   unique_envelope_params, shared_envelopes, spawned_voices>>
    /\ UNCHANGED <<chanVars, rdVars, vcVars, gfVars, kdVars, plVars, nmVars, pzVars>>

GetRelease ==
    /\ sf_loaded
    /\ \E key \in Keys, vel \in Vels :
         spawned' = [call |-> "release", key |-> key, vel |-> vel,
                     vec |-> SampleGetRelease(spawner_params_list, key, vel)]
    /\ UNCHANGED <<sfz_regions, sfz_files, load_result, sf_loaded, spawner_params_list,
                   unique_envelope_params, shared_envelopes, spawned_voices>>
    /\ UNCHANGED <<chanVars, rdVars, vcVars, gfVars, kdVars, plVars, nmVars, pzVars>>

(***************************************************************************)
(* Spawning voices from the soundfont's spawners.  A VoiceControlData may   *)
(* carry an attack and a release override, in milliseconds; the voice       *)
(* keeps the shared envelope it was given (its position in the list) and    *)
(* the overrides of the control data it was spawned with.                   *)
(***************************************************************************)
SpawnControls == [attack : {None, Some(5)}, release : {None, Some(7)}]

\* SampledVoiceSpawner::apply_envelope_overrides: set_stage_data(1, ..) and
\* set_stage_data(5, ..) through the write lock of the shared envelope.
apply_envelope_overrides(spawner, control, envelopes) ==
    LET e == spawner.volume_envelope_params
        after_attack ==
            IF control.attack # None
            THEN [envelopes EXCEPT ![e].attack = control.attack[1]]
            ELSE envelopes
    IN  IF control.release # None
        THEN [after_attack EXCEPT ![e].release = control.release[1]]
        ELSE after_attack

\* SampledVoiceSpawner::spawn_voice: the voice and the shared envelopes after it.
\* graph lists the generators the voice is built of, from the outside in:
\* VoiceBase(SIMDStereoVoice(volume_envelope * (amp * sampler))).  The
\* SIMDConstant made from self.cutoff is bound to _cutoff and dropped.
spawn_voice(spawner, control, envelopes) ==
    [voice |-> [speed_mult |-> spawner.speed_mult,
                envelope |-> spawner.volume_envelope_params,
                attack |-> control.attack,
                release |-> control.release,
                graph |-> <<"VoiceBase", "SIMDStereoVoice", "SIMDVoiceEnvelope",
                            "SIMDConstant", "SIMDStereoVoiceSampler">>],
     envelopes |-> apply_envelope_overrides(spawner, control, envelopes)]

\* A note on: the spawners of the cell each spawn a voice.
SpawnVoice ==
    /\ sf_loaded
    /\ Len(spawned_voices) < MaxSpawned
    /\ \E key \in Keys, vel \in Vels, control \in SpawnControls :
         LET spawners == SampleGetAttack(spawner_params_list, key, vel)
         IN  /\ spawners # <<>>
             /\ LET s == spawn_voice(spawners[1], control, shared_envelopes)
                 IN  /\ spawned_voices' = Append(spawned_voices, s.voice)
                     /\ shared_envelopes' = s.envelopes
    /\ UNCHANGED <<sfz_regions, sfz_files, load_result, sf_loaded, spawner_params_list,
                   unique_envelope_params, spawned>>
    /\ UNCHANGED <<chanVars, rdVars, vcVars, gfVars, kdVars, plVars, nmVars, pzVars>>

(***************************************************************************)
(* The sample reader (core/src/voice/sampler.rs).                          *)
(*                                                                         *)
(* usize is modelled UsizeBits wide.  An integer overflow panics in a      *)
(* debug build and wraps in a release build; a panic, like a division by   *)
(* zero, is the value Fault, which every later operation passes on.        *)
(* Sample values are non-zero and pairwise different (buffer[i] = i + 1),  *)
(* so 0 is only ever the silence of a read outside the buffer.             *)
(***************************************************************************)
Builds == {"debug", "release"}

UsizeMod == 2 ^ UsizeBits

Fault == -1

UAdd(a, b, bld) ==
    IF a = Fault \/ b = Fault THEN Fault
    ELSE IF a + b < UsizeMod THEN a + b
    ELSE IF bld = "debug" THEN Fault ELSE (a + b) % UsizeMod

USub(a, b, bld) ==
    IF a = Fault \/ b = Fault THEN Fault
    ELSE IF a >= b THEN a - b
    ELSE IF bld = "debug" THEN Fault ELSE (a - b + UsizeMod) % UsizeMod

UMul(a, b, bld) ==
    IF a = Fault \/ b = Fault THEN Fault
    ELSE IF a * b < UsizeMod THEN a * b
    ELSE IF bld = "debug" THEN Fault ELSE (a * b) % UsizeMod

UDiv(a, b) ==
    IF a = Fault \/ b = Fault \/ b = 0 THEN Fault ELSE a \div b

LoopModes == {"NoLoop", "OneShot", "LoopContinuous", "LoopSustain"}

Looping(mode) == mode \in {"LoopContinuous", "LoopSustain"}

\* A decoded sample of n frames: frame i (from 0) holds i + 1.
BufferOf(n) == [i \in 1..n |-> i]

\* LoopParams {offset, start, end, mode}: in a looping mode start < end <= length.
LoopParamsFor(n) ==
    {[offset |-> o, start |-> st, end |-> en, mode |-> md] :
        o \in 0..MaxOffset, st \in 0..n, en \in 0..n, md \in LoopModes}

LoopParamsValid(lp, n) ==
    IF Looping(lp.mode)
    THEN lp.start < lp.end /\ lp.end <= n
    ELSE lp.start = 0 /\ lp.end = 0

\* SampleReader::new(buffer, loop_params)
SampleReader_new(buffer, loop_params) ==
    [buffer |-> buffer, length |-> Some(Len(buffer)), loop_params |-> loop_params]

Readers ==
    UNION {{SampleReader_new(BufferOf(n), lp) :
                lp \in {l \in LoopParamsFor(n) : LoopParamsValid(l, n)}} : n \in 0..MaxLen}

\* An indexing that does not check the bound: buffer[pos].
F32BufferSampler_get_unchecked(buffer, pos) ==
    IF pos = Fault \/ pos >= Len(buffer) THEN Fault ELSE buffer[pos + 1]

\* F32BufferSampler::get: self.0.get(pos), or 0.0
F32BufferSampler_get(buffer, pos) ==
    IF pos = Fault THEN Fault
    ELSE IF pos < Len(buffer) THEN buffer[pos + 1] ELSE 0

\* A loop mapping whose loop_count lacks the + 1.
ReaderIndex_short_loop_count(r, pos, bld) ==
    LET p == UAdd(pos, r.loop_params.offset, bld)
        end == r.loop_params.end
        start == r.loop_params.start
    IN  IF ~Looping(r.loop_params.mode) \/ p = Fault THEN p
        ELSE IF p > end
             THEN LET tmp == USub(p, end, bld)
                      diff == USub(end, start, bld)
                      loop_count == UDiv(tmp, diff)
                  IN  USub(p, UMul(diff, loop_count, bld), bld)
             ELSE p

\* The index SampleReader::get hands to buffer.get.
ReaderIndex(r, pos, bld) ==
    LET p == UAdd(pos, r.loop_params.offset, bld)
        end == r.loop_params.end
        start == r.loop_params.start
    IN  IF ~Looping(r.loop_params.mode) \/ p = Fault THEN p
        ELSE IF p > end
             THEN LET tmp == USub(p, end, bld)
                      diff == USub(end, start, bld)
                      loop_count == UAdd(UDiv(tmp, diff), 1, bld)
                  IN  USub(p, UMul(diff, loop_count, bld), bld)
             ELSE p

\* SampleReader::get(pos)
SampleReader_get(r, pos, bld) ==
    LET index == ReaderIndex(r, pos, bld)
        val == F32BufferSampler_get(r.buffer, index)
    IN  [called |-> TRUE, pos |-> pos, fault |-> (val = Fault), index |-> index,
         val |-> val]

\* SampleReader::is_past_end(pos)
SampleReader_is_past_end(r, pos, bld) ==
    IF Looping(r.loop_params.mode)
    THEN [called |-> TRUE, pos |-> pos, fault |-> FALSE, val |-> FALSE]
    ELSE IF r.length = None
         THEN [called |-> TRUE, pos |-> pos, fault |-> FALSE, val |-> FALSE]
         ELSE LET d == USub(pos, r.loop_params.offset, bld)
              IN  [called |-> TRUE, pos |-> pos, fault |-> (d = Fault),
                   val |-> (d # Fault /\ d >= r.length[1])]

NoGet == [called |-> FALSE, pos |-> 0, fault |-> FALSE, index |-> 0, val |-> 0]

NoPast == [called |-> FALSE, pos |-> 0, fault |-> FALSE, val |-> FALSE]

RdIdle ==
    /\ build = "debug"
    /\ reader = SampleReader_new(<<>>, [offset |-> 0, start |-> 0, end |-> 0, mode |-> "NoLoop"])
    /\ got = NoGet
    /\ past = NoPast

Get ==
    /\ \E pos \in 0..MaxPos : got' = SampleReader_get(reader, pos, build)
    /\ UNCHANGED <<build, reader, past>>
    /\ UNCHANGED <<chanVars, sfVars, vcVars, gfVars, kdVars, plVars, nmVars, pzVars>>

IsPastEnd ==
    /\ \E pos \in 0..MaxPos : past' = SampleReader_is_past_end(reader, pos, build)
    /\ UNCHANGED <<build, reader, got>>
    /\ UNCHANGED <<chanVars, sfVars, vcVars, gfVars, kdVars, plVars, nmVars, pzVars>>

(***************************************************************************)
(* The voice: VoiceBase (src/core/channel/voice/base.rs) over the stereo   *)
(* sampler (core/src/voice/sampler.rs) multiplied by the volume envelope.  *)
(*                                                                         *)
(* The envelope, the combinator that multiplies it with the sampler and    *)
(* the grabbers between sampler and reader are not among the sources; they *)
(* follow sections 4.1 to 4.3 of the specification.  Time is counted in    *)
(* 1/TimeDen of a frame, envelope lengths in frames (one frame per lane),  *)
(* envelope values in levels 0..2 (2 is full scale).                       *)
(***************************************************************************)
\* Stage lengths and the levels the six stages end at: delay, attack, hold,
\* decay, sustain, release.  The release outlasts one rendered block.
EnvelopeParams ==
    [len |-> <<0, 2, 1, 1, 0, Lanes + 1>>,
     target |-> <<0, 2, 2, 1, 1, 0>>,
     start |-> 0]

StageSustain == 5
StageRelease == 6
StageEnded == 7
StageKilled == 8

\* The fade-out of a killed voice: one rendered block.
KillFade == Lanes

StageLen(st) == IF st = StageKilled THEN KillFade ELSE EnvelopeParams.len[st]

StageTarget(st) == IF st = StageKilled THEN 0 ELSE EnvelopeParams.target[st]

NextStage(st) == IF st = StageKilled THEN StageEnded ELSE st + 1

\* Entering stage st at level v: stages of length 0 are passed through, the
\* sustain stage is held.
RECURSIVE EnterStage(_, _)
EnterStage(st, v) ==
    IF st = StageEnded THEN [stage |-> StageEnded, t |-> 0, from |-> 0, value |-> 0]
    ELSE IF st = StageSustain
         THEN [stage |-> st, t |-> 0, from |-> StageTarget(st), value |-> StageTarget(st)]
    ELSE IF StageLen(st) = 0 THEN EnterStage(NextStage(st), StageTarget(st))
    ELSE [stage |-> st, t |-> 0, from |-> v, value |-> v]

Envelope_new == EnterStage(1, EnvelopeParams.start)

\* One lane of the envelope: a step of the linear ramp of the current stage.
Envelope_step(e) ==
    IF e.stage \in {StageSustain, StageEnded} THEN e
    ELSE LET len == StageLen(e.stage)
             target == StageTarget(e.stage)
         IN  IF e.t + 1 >= len
             THEN EnterStage(NextStage(e.stage), target)
             ELSE [e EXCEPT !.t = e.t + 1,
                            !.value = e.from + ((target - e.from) * (e.t + 1)) \div len]

\* A release signal that starts the release ramp again from the current level.
Envelope_signal_release_restart(e) ==
    IF e.stage = StageEnded THEN e ELSE EnterStage(StageRelease, e.value)

\* The release signal: the stages before release are cancelled and the ramp
\* starts from the current level; a releasing or ended envelope is left alone.
Envelope_signal_release(e) ==
    IF e.stage >= StageRelease THEN e ELSE EnterStage(StageRelease, e.value)

\* The release signal of a killed voice: the short fade, from the current
\* level, also when the release ramp is already running.
Envelope_signal_release_killed(e) ==
    IF e.stage \in {StageEnded, StageKilled} THEN e ELSE EnterStage(StageKilled, e.value)

Envelope_ended(e) == e.stage = StageEnded

\* SIMDStereoVoiceSampler::new: time 0
Sampler_new(pitch) == [time |-> 0, pitch |-> pitch]

\* increment_time(by): returns the old time
increment_time(sm, by) == [sm EXCEPT !.time = sm.time + by]

\* The grabber hands the frame index of a time to the reader.
FrameOf(time) == time \div TimeDen

\* SIMDStereoVoiceSampler::ended: left.is_past_end(time) || right.is_past_end(time),
\* both grabbers reading the same sample with the same loop parameters: "panic",
\* or the boolean.
Sampler_ended(sm, r, bld) ==
    LET left == SampleReader_is_past_end(r, FrameOf(sm.time), bld)
        right == SampleReader_is_past_end(r, FrameOf(sm.time), bld)
    IN  IF left.fault THEN "panic"
        ELSE IF left.val THEN "true"
        ELSE IF right.fault THEN "panic"
        ELSE IF right.val THEN "true" ELSE "false"

\* SIMDStereoVoiceSampler::signal_release / process_controls: forwarded to pitch_gen
Sampler_signal_release(sm) == sm

Sampler_process_controls(sm, control) == [sm EXCEPT !.pitch = control]

\* The generator under VoiceBase: envelope * amp * sampler.
Generator_new(pitch) == [sampler |-> Sampler_new(pitch), env |-> Envelope_new, out |-> <<>>]

\* ended() of the product: either factor ended.
Generator_ended(g, r, bld) ==
    LET s == Sampler_ended(g.sampler, r, bld)
    IN  IF s = "panic" THEN "panic"
        ELSE IF s = "true" \/ Envelope_ended(g.env) THEN "true" ELSE "false"

Generator_signal_release(g) ==
    [g EXCEPT !.env = Envelope_signal_release(g.env),
              !.sampler = Sampler_signal_release(g.sampler)]

\* next_sample: lane by lane, read at floor(time), then advance time by the
\* speed; the envelope moves one frame per lane.
RECURSIVE Generator_lanes(_, _, _, _)
Generator_lanes(g, r, bld, n) ==
    IF n = 0 THEN g
    ELSE LET sample == SampleReader_get(r, FrameOf(g.sampler.time), bld).val
             lane == g.env.value * sample
         IN  Generator_lanes(
                 [sampler |-> increment_time(g.sampler, g.sampler.pitch),
                  env |-> Envelope_step(g.env),
                  out |-> Append(g.out, lane)],
                 r, bld, n - 1)

Generator_render_to(g, r, bld) == Generator_lanes([g EXCEPT !.out = <<>>], r, bld, Lanes)

\* VoiceBase::new
VoiceBase_new(pitch) == [sample_generator |-> Generator_new(pitch), releasing |-> FALSE]

\* A signal_release that flips the flag.
VoiceBase_signal_release_toggle(v) ==
    [releasing |-> ~v.releasing,
     sample_generator |-> Generator_signal_release(v.sample_generator)]

\* VoiceBase::signal_release
VoiceBase_signal_release(v) ==
    [releasing |-> TRUE,
     sample_generator |-> Generator_signal_release(v.sample_generator)]

\* A signal_release(Killed) that sets the flag and forwards nothing.
VoiceBase_signal_release_killed_unforwarded(v) == [v EXCEPT !.releasing = TRUE]

\* VoiceBase::signal_release with ReleaseType::Killed
VoiceBase_signal_release_killed(v) ==
    [releasing |-> TRUE,
     sample_generator |->
         [v.sample_generator EXCEPT
             !.env = Envelope_signal_release_killed(v.sample_generator.env),
             !.sampler = Sampler_signal_release(v.sample_generator.sampler)]]

\* An ended() that never reports the end.
VoiceBase_ended_never(v, r, bld) == "false"

\* VoiceBase::ended
VoiceBase_ended(v, r, bld) == Generator_ended(v.sample_generator, r, bld)

\* VoiceBase::process_controls
VoiceBase_process_controls(v, control) ==
    [v EXCEPT !.sample_generator.sampler =
                  Sampler_process_controls(v.sample_generator.sampler, control)]

\* VoiceBase::render_to
VoiceBase_render_to(v, r, bld) ==
    [v EXCEPT !.sample_generator = Generator_render_to(v.sample_generator, r, bld)]

\* An is_releasing() that always answers false.
VoiceBase_is_releasing_never(v) == FALSE

\* VoiceBase::is_releasing
VoiceBase_is_releasing(v) == v.releasing

\* The speeds (pitch factor times pitch multiplier) a control snapshot gives.
Speeds == 1..MaxSpeed

\* The samples a voice plays: MaxLen frames, every loop mode and offset.
VoiceReaders ==
    {SampleReader_new(BufferOf(MaxLen), lp) :
        lp \in {l \in LoopParamsFor(MaxLen) :
                   /\ LoopParamsValid(l, MaxLen)
                   /\ Looping(l.mode) => (l.start = 0 /\ l.end = MaxLen)}}

NoEnded == [ever |-> FALSE, last |-> "none"]

VcIdle ==
    /\ voice = VoiceBase_new(TimeDen)
    /\ shadow = VoiceBase_new(TimeDen)
    /\ signals = [count |-> 0, midRelease |-> FALSE]
    /\ endedLog = NoEnded

\* A panic in ended() unwinds the thread that owns the voice.
Alive == endedLog.last # "panic"

RenderTo ==
    /\ Alive
    /\ voice.sample_generator.sampler.time <= MaxTime
    /\ voice' = VoiceBase_render_to(voice, reader, build)
    /\ shadow' = VoiceBase_render_to(shadow, reader, build)
    /\ UNCHANGED <<signals, endedLog>>
    /\ UNCHANGED <<chanVars, sfVars, rdVars, gfVars, kdVars, plVars, nmVars, pzVars>>

SignalRelease ==
    /\ Alive
    /\ voice' = VoiceBase_signal_release(voice)
    /\ shadow' = IF signals.count = 0 THEN VoiceBase_signal_release(shadow) ELSE shadow
    /\ signals' = [count |-> IF signals.count < 2 THEN signals.count + 1 ELSE 2,
                   midRelease |-> \/ signals.midRelease
                                  \/ /\ signals.count >= 1
                                     /\ voice.sample_generator.env.stage = StageRelease
                                     /\ voice.sample_generator.env.t > 0]
    /\ UNCHANGED endedLog
    /\ UNCHANGED <<chanVars, sfVars, rdVars, gfVars, kdVars, plVars, nmVars, pzVars>>

ProcessControls ==
    /\ Alive
    /\ \E control \in Speeds :
         /\ voice' = VoiceBase_process_controls(voice, control)
         /\ shadow' = VoiceBase_process_controls(shadow, control)
    /\ UNCHANGED <<signals, endedLog>>
    /\ UNCHANGED <<chanVars, sfVars, rdVars, gfVars, kdVars, plVars, nmVars, pzVars>>

Ended ==
    /\ Alive
    /\ LET e == VoiceBase_ended(voice, reader, build)
       IN  endedLog' = [ever |-> endedLog.ever \/ e = "true", last |-> e]
    /\ UNCHANGED <<voice, shadow, signals>>
    /\ UNCHANGED <<chanVars, sfVars, rdVars, gfVars, kdVars, plVars, nmVars, pzVars>>

(***************************************************************************)
(* The cutoff wrapper (core/src/voice/cutoff.rs) over the generator         *)
(* envelope * amp * sampler.  The AudioFilter it holds per channel is not   *)
(* among the sources; it is a low pass with one word of state, both         *)
(* channels fed the same lanes.                                             *)
(***************************************************************************)
AudioFilter_new == [state |-> 0]

\* process_sample_simd: every lane goes through the filter in turn.
RECURSIVE AudioFilter_process(_, _, _)
AudioFilter_process(f, lanes, i) ==
    IF i > Len(lanes) THEN f
    ELSE AudioFilter_process([state |-> (f.state + lanes[i] + 1) \div 2], lanes, i + 1)

\* SIMDStereoVoiceCutoff::new
Cutoff_new(v) == [v |-> v, cutoff1 |-> AudioFilter_new, cutoff2 |-> AudioFilter_new]

\* SIMDStereoVoiceCutoff::ended
Cutoff_ended(c, r, bld) == Generator_ended(c.v, r, bld)

\* A signal_release that also clears the two filters.
Cutoff_signal_release_reset(c) ==
    [v |-> Generator_signal_release(c.v),
     cutoff1 |-> AudioFilter_new, cutoff2 |-> AudioFilter_new]

\* SIMDStereoVoiceCutoff::signal_release
Cutoff_signal_release(c) == [c EXCEPT !.v = Generator_signal_release(c.v)]

\* SIMDStereoVoiceCutoff::process_controls
Cutoff_process_controls(c, control) ==
    [c EXCEPT !.v.sampler = Sampler_process_controls(c.v.sampler, control)]

\* SIMDStereoVoiceCutoff::next_sample, one SIMD block
Cutoff_next_sample(c, r, bld) ==
    LET next_sample == Generator_render_to(c.v, r, bld)
    IN  [v |-> next_sample,
         cutoff1 |-> AudioFilter_process(c.cutoff1, next_sample.out, 1),
         cutoff2 |-> AudioFilter_process(c.cutoff2, next_sample.out, 1)]

GfIdle ==
    /\ graph = Cutoff_new(Generator_new(TimeDen))
    /\ graphLog = [op |-> "new", ended |-> "none"]

GraphAlive == graphLog.ended # "panic"

GraphNextSample ==
    /\ GraphAlive
    /\ graph.v.sampler.time <= MaxTime
    /\ graph' = Cutoff_next_sample(graph, reader, build)
    /\ graphLog' = [graphLog EXCEPT !.op = "next_sample"]
    /\ UNCHANGED <<chanVars, sfVars, rdVars, vcVars, kdVars, plVars, nmVars, pzVars>>

GraphSignalRelease ==
    /\ GraphAlive
    /\ graph' = Cutoff_signal_release(graph)
    /\ graphLog' = [graphLog EXCEPT !.op = "signal_release"]
    /\ UNCHANGED <<chanVars, sfVars, rdVars, vcVars, kdVars, plVars, nmVars, pzVars>>

GraphProcessControls ==
    /\ GraphAlive
    /\ \E control \in Speeds : graph' = Cutoff_process_controls(graph, control)
    /\ graphLog' = [graphLog EXCEPT !.op = "process_controls"]
    /\ UNCHANGED <<chanVars, sfVars, rdVars, vcVars, kdVars, plVars, nmVars, pzVars>>

GraphEnded ==
    /\ GraphAlive
    /\ graphLog' = [op |-> "ended", ended |-> Cutoff_ended(graph, reader, build)]
    /\ UNCHANGED graph
    /\ UNCHANGED <<chanVars, sfVars, rdVars, vcVars, kdVars, plVars, nmVars, pzVars>>

(***************************************************************************)
(* The channel voice pool.  The pool itself is not among the sources; it    *)
(* follows section 4.7 of the specification, over the VoiceBase of          *)
(* src/core/channel/voice/base.rs.  A cell has one spawner, every voice     *)
(* plays the same sample at unit speed.  Each pool entry also counts the    *)
(* signal_release calls its voice received (up to 2) and the lanes rendered *)
(* since it was killed.                                                     *)
(***************************************************************************)
\* The keys played: the lowest and the highest.
PoolKeys == {0, MaxKey}

PoolOptions ==
    [voice_limit : {None, Some(2)}, fade_out_killing : BOOLEAN,
     ignore_range : {<<0, 0>>}]

PoolVoice(key) ==
    [key |-> key, base |-> VoiceBase_new(TimeDen), killed |-> FALSE,
     signals |-> 0, killedFor |-> 0]

Pool_signal_release(e, kind) ==
    [e EXCEPT !.base = IF kind = "Killed"
                       THEN VoiceBase_signal_release_killed(e.base)
                       ELSE VoiceBase_signal_release(e.base),
              !.killed = e.killed \/ kind = "Killed",
              !.signals = IF e.signals < 2 THEN e.signals + 1 ELSE 2]

\* The voices that count towards the limit: those not yet killed.
PoolActive(voices) == Cardinality({i \in DOMAIN voices : ~voices[i].killed})

\* Evicting the n oldest voices that are not killed yet.
RECURSIVE EvictOldest(_, _, _)
EvictOldest(voices, n, fade) ==
    IF n = 0 \/ voices = <<>> THEN voices
    ELSE LET oldest == Head(voices)
         IN  IF oldest.killed THEN <<oldest>> \o EvictOldest(Tail(voices), n, fade)
             ELSE IF fade
             THEN <<Pool_signal_release(oldest, "Killed")>>
                      \o EvictOldest(Tail(voices), n - 1, fade)
             ELSE EvictOldest(Tail(voices), n - 1, fade)

\* The voices that have to go before one more fits under the limit.
PoolExcess(voices, options) ==
    IF options.voice_limit = None THEN 0
    ELSE Max(0, PoolActive(voices) + 1 - options.voice_limit[1])

\* note_on(key, vel): evict down to the limit, spawn, append.
Pool_note_on(voices, options, key) ==
    Append(EvictOldest(voices, PoolExcess(voices, options), options.fade_out_killing),
           PoolVoice(key))

\* note_off(key): signal_release(Standard) to the key's voices not yet releasing.
Pool_note_off(voices, key) ==
    [i \in DOMAIN voices |->
        IF voices[i].key = key /\ ~VoiceBase_is_releasing(voices[i].base)
        THEN Pool_signal_release(voices[i], "Standard")
        ELSE voices[i]]

\* The mixing pass of render: render_to on every voice.
Pool_mix(voices, r, bld) ==
    [i \in DOMAIN voices |->
        [voices[i] EXCEPT !.base = VoiceBase_render_to(voices[i].base, r, bld),
                          !.killedFor = IF voices[i].killed
                                        THEN voices[i].killedFor + Lanes ELSE 0]]

PoolKeeps(e, r, bld) == VoiceBase_ended(e.base, r, bld) # "true"

\* render(buffer): the mixing pass, then the voices that ended are dropped.
Pool_render(voices, r, bld) ==
    LET mixed == Pool_mix(voices, r, bld)
    IN  IF \E i \in DOMAIN mixed : VoiceBase_ended(mixed[i].base, r, bld) = "panic"
        THEN [panic |-> TRUE, voices |-> voices]
        ELSE [panic |-> FALSE,
              voices |-> SelectSeq(mixed, LAMBDA e : PoolKeeps(e, r, bld))]

\* The last call: for note_on the number of voices evicted; for note_off
\* the voices of the key that were already releasing (n) and those that
\* were signalled (k); for render the voices dropped (n) and the killed
\* ones among them (k).
NoPoolCall == [op |-> "new", key |-> 0, n |-> 0, k |-> 0]

PlIdle ==
    /\ pool = <<>>
    /\ pool_options = [voice_limit |-> None, fade_out_killing |-> FALSE,
                       ignore_range |-> <<0, 0>>]
    /\ poolLog = NoPoolCall

PoolAlive == poolLog.op # "panic"

NoteOn ==
    /\ PoolAlive
    /\ Len(pool) < MaxPool
    /\ \E key \in PoolKeys :
         /\ pool' = Pool_note_on(pool, pool_options, key)
         /\ poolLog' = [op |-> "note_on", key |-> key,
                        n |-> PoolExcess(pool, pool_options), k |-> 0]
    /\ UNCHANGED pool_options
    /\ UNCHANGED <<chanVars, sfVars, rdVars, vcVars, gfVars, kdVars, nmVars, pzVars>>

NoteOff ==
    /\ PoolAlive
    /\ \E key \in PoolKeys :
         /\ pool' = Pool_note_off(pool, key)
         /\ poolLog' = [op |-> "note_off", key |-> key,
                        n |-> Cardinality({i \in DOMAIN pool :
                                  pool[i].key = key /\ pool[i].base.releasing}),
                        k |-> Cardinality({i \in DOMAIN pool :
                                  pool[i].key = key /\ ~pool[i].base.releasing})]
    /\ UNCHANGED pool_options
    /\ UNCHANGED <<chanVars, sfVars, rdVars, vcVars, gfVars, kdVars, nmVars, pzVars>>

Render ==
    /\ PoolAlive
    /\ \A i \in DOMAIN pool : pool[i].base.sample_generator.sampler.time <= MaxTime
    /\ LET rendered == Pool_render(pool, reader, build)
       IN  /\ pool' = rendered.voices
           /\ poolLog' = [op |-> IF rendered.panic THEN "panic" ELSE "render",
                          key |-> 0,
                          n |-> Len(pool) - Len(rendered.voices),
                          k |-> PoolActive(rendered.voices) + Len(pool)
                                    - PoolActive(pool) - Len(rendered.voices)]
    /\ UNCHANGED pool_options
    /\ UNCHANGED <<chanVars, sfVars, rdVars, vcVars, gfVars, kdVars, nmVars, pzVars>>

\* The NoteOn{key, vel} event.  Section 4.7 drops a note_on whose velocity is
\* in ignore_range, section 7 treats a NoteOn of velocity 0 as a NoteOff;
\* where both rules apply the text gives no order, and either may be taken.
\* The result is the set of pools the event may leave.
Pool_note_on_event(voices, options, key, vel) ==
    LET ignored == vel \in RangeInclusive(options.ignore_range)
    IN  (IF ignored THEN {voices} ELSE {})
        \cup (IF vel = 0 THEN {Pool_note_off(voices, key)} ELSE {})
        \cup (IF ~ignored /\ vel # 0
              THEN {Pool_note_on(voices, options, key)} ELSE {})

\* The log keeps the velocity in n and, in k, the voices of the key that
\* were not releasing before the event.
NoteOnEvent ==
    /\ PoolAlive
    /\ \E key \in PoolKeys, vel \in Vels :
         /\ vel = 0 \/ Len(pool) < MaxPool
         /\ pool' \in Pool_note_on_event(pool, pool_options, key, vel)
         /\ poolLog' = [op |-> "NoteOn", key |-> key, n |-> vel,
                        k |-> Cardinality({i \in DOMAIN pool :
                                  pool[i].key = key /\ ~pool[i].base.releasing})]
    /\ UNCHANGED pool_options
    /\ UNCHANGED <<chanVars, sfVars, rdVars, vcVars, gfVars, kdVars, nmVars, pzVars>>

(***************************************************************************)
(* The KDMAPI entry points (kdmapi/src/lib.rs).  A soundfont is known by    *)
(* its path.  A panic inside an extern "C" function ends the process.       *)
(***************************************************************************)
SfPaths == 1..MaxPaths

\* The orders in which iterating a HashMap can yield its entries.
IterationOrders(S) ==
    {f \in [1..Cardinality(S) -> S] : \A i, j \in 1..Cardinality(S) : f[i] = f[j] => i = j}

\* for path in sfpaths { SampleSoundfont::new(path, ..).unwrap() ... insert }
load_listed(sfpaths, loadable) ==
    IF \E i \in DOMAIN sfpaths : sfpaths[i] \notin loadable
    THEN [ok |-> FALSE, soundfonts |-> {}]
    ELSE [ok |-> TRUE, soundfonts |-> {sfpaths[i] : i \in DOMAIN sfpaths}]

NoKdCall == [op |-> "none", result |-> "none", join |-> 0, sent |-> FALSE]

KdIdle ==
    /\ sf_list = None
    /\ sf_loadable = {}
    /\ SOUNDFONTS = None
    /\ GLOBAL_SYNTH = None
    /\ kdCall = NoKdCall
    /\ stats_threads = <<>>
    /\ CURRENT_VOICE_COUNT = [value |-> 0, writer |-> 0]

\* The process runs and the caller is not inside a KDMAPI function.
KdAlive == kdCall.result \notin {"panic", "joining"}

\* InitializeKDMAPIStream: the soundfonts of the HashMap are sent in its
\* iteration order, a stats thread is spawned with a fresh killed flag, and
\* GLOBAL_SYNTH is overwritten; a Synth that was there is dropped, which
\* detaches its thread and leaves its killed flag false.
InitializeKDMAPIStream ==
    /\ KdAlive
    /\ Len(stats_threads) < MaxThreads
    /\ LET sfpaths == IF sf_list = None THEN <<>> ELSE sf_list[1]
           loaded == IF SOUNDFONTS # None
                     THEN [ok |-> TRUE, soundfonts |-> SOUNDFONTS[1]]
                     ELSE load_listed(sfpaths, sf_loadable)
       IN  IF ~loaded.ok
           THEN /\ kdCall' = [NoKdCall EXCEPT !.op = "InitializeKDMAPIStream",
                                              !.result = "panic"]
                /\ UNCHANGED <<SOUNDFONTS, GLOBAL_SYNTH, stats_threads>>
           ELSE /\ SOUNDFONTS' = Some(loaded.soundfonts)
                /\ stats_threads' = Append(stats_threads,
                                           [killed |-> FALSE, alive |-> TRUE])
                /\ \E sfs \in IterationOrders(loaded.soundfonts) :
                     GLOBAL_SYNTH' = Some([soundfonts |-> sfs,
                                           stats_join_handle |-> Len(stats_threads) + 1])
                /\ kdCall' = [NoKdCall EXCEPT !.op = "InitializeKDMAPIStream",
                                              !.result = "1"]
    /\ UNCHANGED <<sf_list, sf_loadable, CURRENT_VOICE_COUNT>>
    /\ UNCHANGED <<chanVars, sfVars, rdVars, vcVars, gfVars, plVars, nmVars, pzVars>>

\* The stats thread, one turn of its loop: it ends when its killed flag is
\* set, otherwise it writes the voice count and sleeps.
StatsPollOf(t) ==
    /\ kdCall.result # "panic"
    /\ t \in DOMAIN stats_threads
    /\ stats_threads[t].alive
    /\ IF stats_threads[t].killed
       THEN /\ stats_threads' = [stats_threads EXCEPT ![t].alive = FALSE]
            /\ UNCHANGED CURRENT_VOICE_COUNT
       ELSE /\ \E voice_count \in 0..1 :
                 CURRENT_VOICE_COUNT' = [value |-> voice_count, writer |-> t]
            /\ UNCHANGED stats_threads
    /\ UNCHANGED <<sf_list, sf_loadable, SOUNDFONTS, GLOBAL_SYNTH, kdCall>>
    /\ UNCHANGED <<chanVars, sfVars, rdVars, vcVars, gfVars, plVars, nmVars, pzVars>>

StatsPoll == \E t \in 1..MaxThreads : StatsPollOf(t)

\* A Terminate that takes the Synth and joins without setting killed.
TerminateKDMAPIStream_without_kill ==
    /\ KdAlive
    /\ IF GLOBAL_SYNTH = None
       THEN /\ kdCall' = [NoKdCall EXCEPT !.op = "TerminateKDMAPIStream", !.result = "1"]
            /\ UNCHANGED <<GLOBAL_SYNTH, stats_threads>>
       ELSE /\ GLOBAL_SYNTH' = None
            /\ UNCHANGED stats_threads
            /\ kdCall' = [NoKdCall EXCEPT !.op = "TerminateKDMAPIStream",
                                          !.result = "joining",
                                          !.join = GLOBAL_SYNTH[1].stats_join_handle]
    /\ UNCHANGED <<sf_list, sf_loadable, SOUNDFONTS, CURRENT_VOICE_COUNT>>
    /\ UNCHANGED <<chanVars, sfVars, rdVars, vcVars, gfVars, plVars, nmVars, pzVars>>

\* TerminateKDMAPIStream up to the join: GLOBAL_SYNTH.take(), and for the
\* Synth taken the killed flag is set and the join begins.
TerminateKDMAPIStream ==
    /\ KdAlive
    /\ IF GLOBAL_SYNTH = None
       THEN /\ kdCall' = [NoKdCall EXCEPT !.op = "TerminateKDMAPIStream", !.result = "1"]
            /\ UNCHANGED <<GLOBAL_SYNTH, stats_threads>>
       ELSE LET handle == GLOBAL_SYNTH[1].stats_join_handle
            IN  /\ GLOBAL_SYNTH' = None
                /\ stats_threads' = [stats_threads EXCEPT ![handle].killed = TRUE]
                /\ kdCall' = [NoKdCall EXCEPT !.op = "TerminateKDMAPIStream",
                                              !.result = "joining", !.join = handle]
    /\ UNCHANGED <<sf_list, sf_loadable, SOUNDFONTS, CURRENT_VOICE_COUNT>>
    /\ UNCHANGED <<chanVars, sfVars, rdVars, vcVars, gfVars, plVars, nmVars, pzVars>>

\* stats_join_handle.join() returns once the thread has ended; then the
\* function returns 1.
TerminateJoin ==
    /\ kdCall.result = "joining"
    /\ ~stats_threads[kdCall.join].alive
    /\ kdCall' = [kdCall EXCEPT !.result = "1"]
    /\ UNCHANGED <<sf_list, sf_loadable, SOUNDFONTS, GLOBAL_SYNTH, stats_threads,
                   CURRENT_VOICE_COUNT>>
    /\ UNCHANGED <<chanVars, sfVars, rdVars, vcVars, gfVars, plVars, nmVars, pzVars>>

\* SendDirectData(dwMsg): the event goes to the senders of the Synth in
\* GLOBAL_SYNTH, if there is one.
SendDirectData ==
    /\ KdAlive
    /\ kdCall' = [NoKdCall EXCEPT !.op = "SendDirectData", !.result = "1",
                                  !.sent = (GLOBAL_SYNTH # None)]
    /\ UNCHANGED <<sf_list, sf_loadable, SOUNDFONTS, GLOBAL_SYNTH, stats_threads,
                   CURRENT_VOICE_COUNT>>
    /\ UNCHANGED <<chanVars, sfVars, rdVars, vcVars, gfVars, plVars, nmVars, pzVars>>

\* ResetKDMAPIStream(): reset_synth on the senders, if there is a Synth.
ResetKDMAPIStream ==
    /\ KdAlive
    /\ kdCall' = [NoKdCall EXCEPT !.op = "ResetKDMAPIStream", !.result = "()",
                                  !.sent = (GLOBAL_SYNTH # None)]
    /\ UNCHANGED <<sf_list, sf_loadable, SOUNDFONTS, GLOBAL_SYNTH, stats_threads,
                   CURRENT_VOICE_COUNT>>
    /\ UNCHANGED <<chanVars, sfVars, rdVars, vcVars, gfVars, plVars, nmVars, pzVars>>

(***************************************************************************)
(* The soundfont list file (kdmapi/src/sf_list.rs).  A string is the        *)
(* sequence of its characters; a slice input[n..] beyond the end of the     *)
(* string panics.                                                           *)
(***************************************************************************)
\* The lines a list file is written with.
ListLines ==
    LET path == <<"s", "f", ".", "p", "a", "t", "h", " ", "=", " ">>
        enabled == <<"s", "f", ".", "e", "n", "a", "b", "l", "e", "d", " ", "=", " ">>
    IN  << <<"s", "f", ".", "s", "t", "a", "r", "t">>,
           path \o <<"a", ".", "s", "f", "z">>,
           path \o <<"b", ".", "t", "x", "t">>,
           enabled \o <<"1">>,
           enabled \o <<"0">>,
           <<"s", "f", ".", "e", "n", "d">> >>

\* parse_list, from fs::read_to_string on: file is None when the list file
\* cannot be found or read, existing holds the paths canonicalize() accepts.
\* turns counts the turns of the while loop.
parse_list(file, existing) ==
    LET white(c) == c \in {" ", "\n", "\r"}
        lower(c) == c \in {"a", "b", "d", "e", "f", "h", "l", "n", "p", "r", "s",
                           "t", "x", "z"}
        from(str, n) == SubSeq(str, n + 1, Len(str))
        trim(str) ==
            LET black == {i \in DOMAIN str : ~white(str[i])}
            IN  IF black = {} THEN <<>>
                ELSE SubSeq(str, CHOOSE i \in black : \A j \in black : i <= j,
                                 CHOOSE i \in black : \A j \in black : j <= i)
        \* Regex::new("sf\\.[a-z]*").find_at(input, 0): <<start, end>>
        find(input) ==
            LET hits == {i \in 1..(Len(input) - 2) :
                            input[i] = "s" /\ input[i + 1] = "f" /\ input[i + 2] = "."}
            IN  IF hits = {} THEN None
                ELSE LET start == CHOOSE i \in hits : \A j \in hits : i <= j
                         ends == {e \in (start + 2)..Len(input) :
                                     \A k \in (start + 3)..e : lower(input[k])}
                     IN  Some(<<start - 1, CHOOSE e \in ends : \A x \in ends : x <= e>>)
        \* input.find('\n').or_else(|| input.find('\r')).unwrap_or(input.len())
        line_end(input) ==
            LET at(c) == {i \in DOMAIN input : input[i] = c}
                least(S) == CHOOSE i \in S : \A j \in S : i <= j
            IN  IF at("\n") # {} THEN least(at("\n")) - 1
                ELSE IF at("\r") # {} THEN least(at("\r")) - 1
                ELSE Len(input)
        is_sfz(path) ==
            /\ Len(path) > 4
            /\ SubSeq(path, Len(path) - 3, Len(path)) = <<".", "s", "f", "z">>
        SFRegion_default == [path |-> <<>>, enabled |-> FALSE]
        RECURSIVE scan(_, _, _, _)
        scan(input, vec, region, turns) ==
            IF Len(input) = 0 THEN [panic |-> FALSE, vec |-> vec, turns |-> turns]
            ELSE LET m == find(input) IN
                 IF m = None THEN [panic |-> FALSE, vec |-> vec, turns |-> turns + 1]
                 ELSE LET result == trim(SubSeq(input, m[1][1] + 1, m[1][2]))
                          rest == from(input, m[1][2])
                          value == from(rest, 3)
                          line == SubSeq(value, 1, line_end(value))
                          after == from(value, line_end(value))
                      IN  IF result = <<"s", "f", ".", "s", "t", "a", "r", "t">>
                          THEN scan(rest, vec, SFRegion_default, turns + 1)
                          ELSE IF result = <<"s", "f", ".", "p", "a", "t", "h">>
                          THEN IF Len(rest) < 3
                               THEN [panic |-> TRUE, vec |-> vec, turns |-> turns + 1]
                               ELSE scan(after, vec, [region EXCEPT !.path = line],
                                         turns + 1)
                          ELSE IF result = <<"s", "f", ".", "e", "n", "a", "b", "l", "e", "d">>
                          THEN IF Len(rest) < 3
                               THEN [panic |-> TRUE, vec |-> vec, turns |-> turns + 1]
                               ELSE scan(after, vec,
                                         [region EXCEPT !.enabled = (line = <<"1">>)],
                                         turns + 1)
                          ELSE IF result = <<"s", "f", ".", "e", "n", "d">>
                          THEN scan(rest, Append(vec, region), region, turns + 1)
                          ELSE scan(rest, vec, region, turns + 1)
    IN  IF file = None THEN [panic |-> FALSE, result |-> "Err", paths |-> <<>>, turns |-> 0]
        ELSE LET scanned == scan(trim(file[1]), <<>>, SFRegion_default, 0)
                 kept == SelectSeq(scanned.vec,
                             LAMBDA sf : sf.enabled /\ is_sfz(sf.path)
                                         /\ sf.path \in existing)
             IN  IF scanned.panic
                 THEN [panic |-> TRUE, result |-> "none", paths |-> <<>>,
                       turns |-> scanned.turns]
                 ELSE [panic |-> FALSE, result |-> "Ok",
                       paths |-> [i \in DOMAIN kept |-> kept[i].path],
                       turns |-> scanned.turns]

\* parse_list() over a list file written with up to MaxLines lines and cut
\* off at any character, or over no file.
ParseList ==
    /\ numCall.op = "none"
    /\ \E lines \in SeqsUpTo(DOMAIN ListLines, MaxLines), exists \in BOOLEAN :
         LET RECURSIVE text(_)
             text(n) == IF n = 0 THEN <<>>
                        ELSE text(n - 1) \o ListLines[lines[n]] \o <<"\n">>
             existing == IF exists THEN {SubSeq(ListLines[2], 11, 15)} ELSE {}
         IN  \E file \in {None} \cup {Some(SubSeq(text(Len(lines)), 1, cut)) :
                                         cut \in 0..Len(text(Len(lines)))} :
                numCall' = [op |-> "parse_list", file |-> file,
                            returned |-> parse_list(file, existing)]
    /\ UNCHANGED <<chanVars, sfVars, rdVars, vcVars, gfVars, kdVars, plVars, pzVars>>

(***************************************************************************)
(* The pitch law and the amp law (core/src/soundfont/mod.rs).  An f32 is    *)
(* the pair <<m, e>> of its 24-bit significand and its exponent: the value  *)
(* m * 2^e with 2^23 <= m < 2^24.  Keys and velocities are the MIDI ones,   *)
(* 0..127.                                                                  *)
(***************************************************************************)
MidiMax == 127

\* x moved by d units in the last place.
F32Ulps(x, d) ==
    IF x[1] + d >= 2^24 THEN <<2^23, x[2] + 1>>
    ELSE IF x[1] + d < 2^23 THEN <<2^24 - 1, x[2] - 1>>
    ELSE <<x[1] + d, x[2]>>

\* a <= b
F32Le(a, b) == a[2] < b[2] \/ (a[2] = b[2] /\ a[1] <= b[1])

\* a / b, rounded to the nearest f32, ties to even: a long division that
\* yields the significand's bits and one guard bit; the remainder is sticky.
F32Div(a, b) ==
    LET RECURSIVE Bits(_, _, _)
        Bits(q, r, n) ==
            IF n = 0 THEN <<q, r>>
            ELSE IF 2 * r >= b[1] THEN Bits(2 * q + 1, 2 * r - b[1], n - 1)
            ELSE Bits(2 * q, 2 * r, n - 1)
        whole == IF a[1] >= b[1] THEN 1 ELSE 0
        frac == IF whole = 1 THEN 23 ELSE 24
        qr == Bits(whole, a[1] - whole * b[1], frac + 1)
        m == qr[1] \div 2
        up == qr[1] % 2 = 1 /\ (qr[2] # 0 \/ m % 2 = 1)
    IN  F32Ulps(<<m, a[2] - b[2] - frac>>, IF up THEN 1 ELSE 0)

\* helpers::FREQS, the 128-entry 12-TET table (440 Hz at key 69).  The
\* table is not among the sources: each entry is the f32 nearest to
\* 440 * 2^((k - 69) / 12); the twelve significands are those of keys 60..71.
FREQS ==
    LET octave == <<8572947, 9082720, 9622807, 10195009, 10801236, 11443511,
                    12123977, 12844906, 13608704, 14417920, 15275254, 16183568>>
    IN  [k \in 0..MidiMax |-> <<octave[(k % 12) + 1], (k \div 12) - 20>>]

\* The f32 nearest to (1.04f32)^(vel - 127), for vel = 0..127.
AMPS ==
    <<
      <<14746800, -31>>, <<15336672, -31>>, <<15950138, -31>>, <<16588143, -31>>,
      <<8625834, -30>>, <<8970867, -30>>, <<9329701, -30>>, <<9702889, -30>>,
      <<10091004, -30>>, <<10494644, -30>>, <<10914429, -30>>, <<11351006, -30>>,
      <<11805046, -30>>, <<12277247, -30>>, <<12768337, -30>>, <<13279070, -30>>,
      <<13810232, -30>>, <<14362641, -30>>, <<14937146, -30>>, <<15534631, -30>>,
      <<16156016, -30>>, <<8401128, -29>>, <<8737173, -29>>, <<9086659, -29>>,
      <<9450125, -29>>, <<9828130, -29>>, <<10221255, -29>>, <<10630105, -29>>,
      <<11055308, -29>>, <<11497520, -29>>, <<11957421, -29>>, <<12435717, -29>>,
      <<12933145, -29>>, <<13450471, -29>>, <<13988489, -29>>, <<14548028, -29>>,
      <<15129948, -29>>, <<15735146, -29>>, <<16364551, -29>>, <<8509566, -28>>,
      <<8849949, -28>>, <<9203946, -28>>, <<9572104, -28>>, <<9954987, -28>>,
      <<10353187, -28>>, <<10767314, -28>>, <<11198006, -28>>, <<11645926, -28>>,
      <<12111762, -28>>, <<12596232, -28>>, <<13100081, -28>>, <<13624084, -28>>,
      <<14169047, -28>>, <<14735808, -28>>, <<15325240, -28>>, <<15938249, -28>>,
      <<16575778, -28>>, <<8619404, -27>>, <<8964180, -27>>, <<9322747, -27>>,
      <<9695656, -27>>, <<10083482, -27>>, <<10486821, -27>>, <<10906294, -27>>,
      <<11342545, -27>>, <<11796246, -27>>, <<12268096, -27>>, <<12758819, -27>>,
      <<13269171, -27>>, <<13799938, -27>>, <<14351935, -27>>, <<14926012, -27>>,
      <<15523051, -27>>, <<16143973, -27>>, <<8394866, -26>>, <<8730660, -26>>,
      <<9079886, -26>>, <<9443081, -26>>, <<9820804, -26>>, <<10213636, -26>>,
      <<10622181, -26>>, <<11047068, -26>>, <<11488950, -26>>, <<11948507, -26>>,
      <<12426447, -26>>, <<12923505, -26>>, <<13440444, -26>>, <<13978062, -26>>,
      <<14537184, -26>>, <<15118670, -26>>, <<15723417, -26>>, <<16352353, -26>>,
      <<8503223, -25>>, <<8843352, -25>>, <<9197085, -25>>, <<9564968, -25>>,
      <<9947567, -25>>, <<10345469, -25>>, <<10759288, -25>>, <<11189659, -25>>,
      <<11637245, -25>>, <<12102734, -25>>, <<12586843, -25>>, <<13090316, -25>>,
      <<13613928, -25>>, <<14158485, -25>>, <<14724824, -25>>, <<15313816, -25>>,
      <<15926368, -25>>, <<16563422, -25>>, <<8612979, -24>>, <<8957498, -24>>,
      <<9315798, -24>>, <<9688429, -24>>, <<10075966, -24>>, <<10479004, -24>>,
      <<10898164, -24>>, <<11334090, -24>>, <<11787453, -24>>, <<12258951, -24>>,
      <<12749309, -24>>, <<13259280, -24>>, <<13789651, -24>>, <<14341237, -24>>,
      <<14914886, -24>>, <<15511480, -24>>, <<16131939, -24>>, <<8388608, -23>>
    >>

\* An amp law that counts the velocity from 0: 1.04^(-vel).
SampledVoiceSpawner_amp_from_zero(vel, off) ==
    IF vel = 0 THEN <<2^23, -23>> ELSE F32Ulps(AMPS[MidiMax - vel + 1], off)

\* SampledVoiceSpawner::new: amp = 1.04f32.powf(vel as f32 - 127.0).  powf
\* returns exactly 1 for the exponent 0, and otherwise a value within one
\* unit in the last place (off) of the nearest f32.
SampledVoiceSpawner_amp(vel, off) ==
    IF vel = MidiMax THEN <<2^23, -23>> ELSE F32Ulps(AMPS[vel + 1], off)

NmIdle == numCall = [op |-> "none"]

\* get_speed_mult_from_keys(key, region.pitch_keycenter.unwrap_or(key)), as
\* SampleSoundfont::new calls it.  A table entry is read within one unit in
\* the last place (off) of the nearest f32.
GetSpeedMult ==
    /\ numCall.op = "none"
    /\ \E key \in 0..MidiMax,
          pitch_keycenter \in {None} \cup {Some(k) : k \in 0..MidiMax} :
         LET operands == get_speed_mult_from_keys(key,
                             IF pitch_keycenter = None THEN key
                             ELSE pitch_keycenter[1])
         IN  \E off \in [{operands[1], operands[2]} -> -1..1] :
                numCall' = [op |-> "get_speed_mult_from_keys",
                            key |-> key,
                            pitch_keycenter |-> pitch_keycenter,
                            off |-> off,
                            value |-> F32Div(F32Ulps(FREQS[operands[1]], off[operands[1]]),
                                             F32Ulps(FREQS[operands[2]], off[operands[2]]))]
    /\ UNCHANGED <<chanVars, sfVars, rdVars, vcVars, gfVars, kdVars, plVars, pzVars>>

\* SampledVoiceSpawner::new(params, vel, stream_params): the amp it bakes in.
SpawnerAmp ==
    /\ numCall.op = "none"
    /\ \E vel \in 0..MidiMax, off \in -1..1 :
         numCall' = [op |-> "SampledVoiceSpawner_new", vel |-> vel,
                     amp |-> SampledVoiceSpawner_amp(vel, off)]
    /\ UNCHANGED <<chanVars, sfVars, rdVars, vcVars, gfVars, kdVars, plVars, pzVars>>

\* A next_sample that advances the accumulator before it records the lane.
Sampler_next_sample_advance_first(sm, speed) ==
    LET RECURSIVE lanes(_, _, _, _)
        lanes(s, i, indexes, fractionals) ==
            IF i > Len(speed) THEN [sampler |-> s, indexes |-> indexes,
                                    fractionals |-> fractionals]
            ELSE LET next == increment_time(s, speed[i])
                 IN  lanes(next, i + 1, Append(indexes, FrameOf(next.time)),
                           Append(fractionals, next.time % TimeDen))
    IN  lanes(sm, 1, <<>>, <<>>)

\* SIMDStereoVoiceSampler::next_sample: for each lane i, time is what
\* increment_time(speed[i]) returns (the accumulator before the addition),
\* indexes[i] = time as i32 and fractionals[i] = time % 1.0.
Sampler_next_sample(sm, speed) ==
    LET RECURSIVE lanes(_, _, _, _)
        lanes(s, i, indexes, fractionals) ==
            IF i > Len(speed) THEN [sampler |-> s, indexes |-> indexes,
                                    fractionals |-> fractionals]
            ELSE LET time == s.time
                 IN  lanes(increment_time(s, speed[i]), i + 1,
                           Append(indexes, FrameOf(time)),
                           Append(fractionals, time % TimeDen))
    IN  lanes(sm, 1, <<>>, <<>>)

\* One block of a sampler that starts as SIMDStereoVoiceSampler::new: the
\* pitch generator hands one speed per lane.  The call record keeps the
\* speeds of all lanes so far and the indexes and fractionals of all lanes.
SamplerNextSample ==
    /\ numCall.op \in {"none", "next_sample"}
    /\ LET sm == IF numCall.op = "none" THEN Sampler_new(TimeDen) ELSE numCall.sampler
           before == IF numCall.op = "none"
                     THEN [speeds |-> <<>>, indexes |-> <<>>, fractionals |-> <<>>]
                     ELSE numCall
       IN  /\ sm.time <= MaxTime
           /\ \E speed \in [1..Lanes -> Speeds] :
                LET block == Sampler_next_sample(sm, speed)
                IN  numCall' = [op |-> "next_sample",
                                sampler |-> block.sampler,
                                speeds |-> before.speeds \o speed,
                                indexes |-> before.indexes \o block.indexes,
                                fractionals |-> before.fractionals \o block.fractionals]
    /\ UNCHANGED <<chanVars, sfVars, rdVars, vcVars, gfVars, kdVars, plVars, pzVars>>

(***************************************************************************)
(* The SFZ parser (soundfonts/src/sfz/mod.rs).  A string is the sequence of *)
(* its characters, "/" being the separator; names are one character long.   *)
(* A PathBuf is its components: whether it has a root, and its names.       *)
(***************************************************************************)
PathBuf_from(str) ==
    [abs |-> str # <<>> /\ str[1] = "/",
     parts |-> SelectSeq(str, LAMBDA c : c # "/")]

\* Path::join: an absolute path replaces the path it is joined to.
PathBuf_join(a, b) ==
    IF b.abs THEN b ELSE [abs |-> a.abs, parts |-> a.parts \o b.parts]

\* The canonical parent directory of the SFZ file.
BasePath == PathBuf_from(<<"/", "s">>)

\* The opcodes of the input: SfzRegionFlags with their values.
RegionFlags ==
    <<[name |-> "Key", val |-> 1],
     [name |-> "Sample", val |-> <<"a">>],
     [name |-> "Sample", val |-> <<"/", "b">>],
     [name |-> "DefaultPath", val |-> <<"d", "/">>],
     [name |-> "DefaultPath", val |-> <<"/", "e">>]>>

\* SfzGroupType
GroupTypes == {"Control", "Master", "Group", "Region", "Other"}

\* impl Default for RegionParamsBuilder
RegionParamsBuilder_default ==
    [lovel |-> 0, hivel |-> MidiMax, key |-> None, pitch_keycenter |-> None,
     pan |-> 0, sample |-> None, default_path |-> None, loop_mode |-> "NoLoop",
     ampeg_envelope |-> [ampeg_start |-> 0, ampeg_delay |-> 0, ampeg_attack |-> 0,
                         ampeg_hold |-> 0, ampeg_decay |-> 0, ampeg_sustain |-> 1,
                         ampeg_release |-> 1]]

\* RegionParamsBuilder::update_from_flag
update_from_flag(builder, flag) ==
    CASE flag.name = "Hivel" -> [builder EXCEPT !.hivel = flag.val]
      [] flag.name = "Key" -> [builder EXCEPT !.key = Some(flag.val)]
      [] flag.name = "Sample" -> [builder EXCEPT !.sample = Some(flag.val)]
      [] flag.name = "DefaultPath" -> [builder EXCEPT !.default_path = Some(flag.val)]

\* A build that leaves default_path out.
RegionParamsBuilder_build_without_default_path(builder, base_path) ==
    IF builder.sample = None \/ builder.key = None THEN None
    ELSE Some([lovel |-> builder.lovel, hivel |-> builder.hivel,
               key |-> builder.key[1],
               pitch_keycenter |-> builder.pitch_keycenter, pan |-> builder.pan,
               sample_path |-> PathBuf_join(base_path, PathBuf_from(builder.sample[1])),
               loop_mode |-> builder.loop_mode,
               ampeg_envelope |-> builder.ampeg_envelope])

\* RegionParamsBuilder::build: None when sample or key is missing.
RegionParamsBuilder_build(builder, base_path) ==
    IF builder.sample = None \/ builder.key = None THEN None
    ELSE LET relative_sample_path ==
                 IF builder.default_path # None
                 THEN PathBuf_join(PathBuf_from(builder.default_path[1]),
                                   PathBuf_from(builder.sample[1]))
                 ELSE PathBuf_from(builder.sample[1])
         IN  Some([lovel |-> builder.lovel, hivel |-> builder.hivel,
                   key |-> builder.key[1],
                   pitch_keycenter |-> builder.pitch_keycenter, pan |-> builder.pan,
                   sample_path |-> PathBuf_join(base_path, relative_sample_path),
                   loop_mode |-> builder.loop_mode,
                   ampeg_envelope |-> builder.ampeg_envelope])

get_group_level(group_type) ==
    CASE group_type = "Control" -> Some(1)
      [] group_type = "Master" -> Some(2)
      [] group_type = "Group" -> Some(3)
      [] group_type = "Region" -> Some(4)
      [] OTHER -> None

\* A close that puts the region built in front of the earlier ones.
close_region_in_front(group, stack, built) ==
    IF group # Some("Region") THEN [panic |-> FALSE, stack |-> stack, regions |-> built]
    ELSE IF stack = <<>> THEN [panic |-> TRUE, stack |-> stack, regions |-> built]
    ELSE LET next_region == RegionParamsBuilder_build(stack[Len(stack)], BasePath)
         IN  [panic |-> FALSE,
              stack |-> SubSeq(stack, 1, Len(stack) - 1),
              regions |-> IF next_region = None THEN built
                          ELSE <<next_region[1]>> \o built]

\* parse_sf_root: stepping outside of a region.  With the current group a
\* Region the builder on top of the stack is popped and built; pop_back()
\* on an empty stack makes the unwrap panic.
close_region(group, stack, built) ==
    IF group # Some("Region") THEN [panic |-> FALSE, stack |-> stack, regions |-> built]
    ELSE IF stack = <<>> THEN [panic |-> TRUE, stack |-> stack, regions |-> built]
    ELSE LET next_region == RegionParamsBuilder_build(stack[Len(stack)], BasePath)
         IN  [panic |-> FALSE,
              stack |-> SubSeq(stack, 1, Len(stack) - 1),
              regions |-> IF next_region = None THEN built
                          ELSE Append(built, next_region[1])]

\* A step that only pushes: the loop that pops is left out.
RECURSIVE step_to_level_push_only(_, _)
step_to_level_push_only(stack, group_level) ==
    IF Len(stack) < group_level
    THEN step_to_level_push_only(
             Append(stack, IF stack = <<>> THEN RegionParamsBuilder_default
                           ELSE stack[Len(stack)]),
             group_level)
    ELSE stack

\* parse_sf_root: the two while loops that bring the stack to group_level.
RECURSIVE step_to_level(_, _)
step_to_level(stack, group_level) ==
    IF Len(stack) < group_level
    THEN step_to_level(Append(stack, IF stack = <<>> THEN RegionParamsBuilder_default
                                     ELSE stack[Len(stack)]),
                       group_level)
    ELSE SubSeq(stack, 1, group_level)

\* Per level, the opcodes read since the header now open at it: name -> value.
\* The log also counts the tokens read.
NoOpcodes == [name \in {} |-> 0]

PzIdle ==
    /\ current_group = None
    /\ group_data_stack = <<>>
    /\ built_regions = <<>>
    /\ parseLog = [open |-> [l \in 1..4 |-> NoOpcodes], n |-> 0,
                   done |-> FALSE, panic |-> FALSE]

ParseAlive == ~parseLog.done /\ ~parseLog.panic /\ parseLog.n < MaxTokens

\* The arm SfzToken::Group(group) of the loop.
TokenGroup ==
    /\ ParseAlive
    /\ \E group \in GroupTypes :
         LET closed == close_region(current_group, group_data_stack, built_regions)
             group_level == get_group_level(group)
         IN  /\ built_regions' = closed.regions
             /\ IF closed.panic
                THEN /\ parseLog' = [parseLog EXCEPT !.panic = TRUE, !.n = @ + 1]
                     /\ UNCHANGED <<current_group, group_data_stack>>
                ELSE IF group_level # None
                THEN /\ current_group' = Some(group)
                     /\ group_data_stack' = step_to_level(closed.stack, group_level[1])
                     /\ parseLog' = [parseLog EXCEPT !.n = @ + 1, !.open =
                                        [l \in 1..4 |-> IF l >= group_level[1]
                                                        THEN NoOpcodes ELSE @[l]]]
                ELSE /\ current_group' = None
                     /\ group_data_stack' = closed.stack
                     /\ parseLog' = [parseLog EXCEPT !.n = @ + 1]
    /\ UNCHANGED <<chanVars, sfVars, rdVars, vcVars, gfVars, kdVars, plVars, nmVars>>

\* The arm SfzToken::RegionFlag(flag) of the loop.
TokenRegionFlag ==
    /\ ParseAlive
    /\ \E i \in DOMAIN RegionFlags :
         LET flag == RegionFlags[i] IN
         IF current_group # None /\ group_data_stack # <<>>
         THEN /\ group_data_stack' =
                    [group_data_stack EXCEPT ![Len(group_data_stack)] =
                                                 update_from_flag(@, flag)]
              /\ parseLog' = [parseLog EXCEPT
                                 !.n = @ + 1,
                                 !.open[get_group_level(current_group[1])[1]] =
                                     (flag.name :> flag.val) @@ @]
         ELSE /\ parseLog' = [parseLog EXCEPT !.n = @ + 1]
              /\ UNCHANGED group_data_stack
    /\ UNCHANGED <<current_group, built_regions>>
    /\ UNCHANGED <<chanVars, sfVars, rdVars, vcVars, gfVars, kdVars, plVars, nmVars>>

\* The end of the tokens: the region still open is built.
TokensEnd ==
    /\ ~parseLog.done
    /\ ~parseLog.panic
    /\ LET closed == close_region(current_group, group_data_stack, built_regions)
       IN  /\ built_regions' = closed.regions
           /\ group_data_stack' = closed.stack
           /\ parseLog' = [parseLog EXCEPT !.done = ~closed.panic, !.panic = closed.panic]
    /\ UNCHANGED current_group
    /\ UNCHANGED <<chanVars, sfVars, rdVars, vcVars, gfVars, kdVars, plVars, nmVars>>

ChanInit ==
    /\ ChanIdle
    /\ SfIdle
    /\ RdIdle
    /\ VcIdle
    /\ GfIdle
    /\ KdIdle
    /\ PlIdle
    /\ NmIdle
    /\ PzIdle

ChanNext ==
    \/ SetSoundfonts
    \/ ChangeProgram

SpecChannel == ChanInit /\ [][ChanNext]_vars

SfInit ==
    /\ ChanIdle
    /\ RdIdle
    /\ VcIdle
    /\ GfIdle
    /\ KdIdle
    /\ PlIdle
    /\ NmIdle
    /\ PzIdle
    /\ sfz_regions \in RegionLists
    /\ sfz_files = AllFilesGood
    /\ SfFresh

SfNext ==
    \/ New
    \/ GetAttack
    \/ GetRelease

SpecSoundfont == SfInit /\ [][SfNext]_vars

\* Loading from every state of the files on disk.
LdInit ==
    /\ ChanIdle
    /\ RdIdle
    /\ VcIdle
    /\ GfIdle
    /\ KdIdle
    /\ PlIdle
    /\ NmIdle
    /\ PzIdle
    /\ sfz_regions \in RegionLists
    /\ sfz_files \in FileStates
    /\ SfFresh

LdNext == New

SpecLoad == LdInit /\ [][LdNext]_vars

\* An SFZ with one region per key over the whole velocity range.
SpawnRegionLists ==
    {rs \in RegionLists :
        /\ Len(rs) = MaxRegions
        /\ \A i \in DOMAIN rs :
             /\ rs[i].keyrange = <<(i - 1) % (MaxKey + 1), (i - 1) % (MaxKey + 1)>>
             /\ rs[i].velrange = <<0, MaxVel>>}

SpInit ==
    /\ ChanIdle
    /\ RdIdle
    /\ VcIdle
    /\ GfIdle
    /\ KdIdle
    /\ PlIdle
    /\ NmIdle
    /\ PzIdle
    /\ sfz_regions \in SpawnRegionLists
    /\ sfz_files = AllFilesGood
    /\ SfFresh

SpNext ==
    \/ New
    \/ SpawnVoice

SpecSpawn == SpInit /\ [][SpNext]_vars

RdInit ==
    /\ ChanIdle
    /\ SfIdle
    /\ VcIdle
    /\ GfIdle
    /\ KdIdle
    /\ PlIdle
    /\ NmIdle
    /\ PzIdle
    /\ build \in Builds
    /\ reader \in Readers
    /\ got = NoGet
    /\ past = NoPast

RdNext ==
    \/ Get
    \/ IsPastEnd

SpecReader == RdInit /\ [][RdNext]_vars

VcInit ==
    /\ ChanIdle
    /\ SfIdle
    /\ GfIdle
    /\ KdIdle
    /\ PlIdle
    /\ NmIdle
    /\ PzIdle
    /\ build \in Builds
    /\ reader \in VoiceReaders
    /\ got = NoGet
    /\ past = NoPast
    /\ VcIdle

VcNext ==
    \/ RenderTo
    \/ SignalRelease
    \/ ProcessControls
    \/ Ended

SpecVoice == VcInit /\ [][VcNext]_vars

PlInit ==
    /\ ChanIdle
    /\ SfIdle
    /\ VcIdle
    /\ GfIdle
    /\ KdIdle
    /\ NmIdle
    /\ PzIdle
    /\ build \in Builds
    \* The samples the pool's voices play: MaxLen frames, not looping with an
    \* offset of one frame, or looping without offset.
    /\ reader \in {r \in VoiceReaders :
                     \/ r.loop_params.mode = "NoLoop" /\ r.loop_params.offset = 1
                     \/ r.loop_params.mode = "LoopContinuous" /\ r.loop_params.offset = 0}
    /\ got = NoGet
    /\ past = NoPast
    /\ pool = <<>>
    /\ pool_options \in PoolOptions
    /\ poolLog = NoPoolCall

PlNext ==
    \/ NoteOn
    \/ NoteOff
    \/ Render

SpecPool == PlInit /\ [][PlNext]_vars

\* The pool under NoteOn events, for the ignore ranges 0..=0 (the default),
\* 1..=0 (empty), 0..=MaxVel and MaxVel..=MaxVel.
EvInit ==
    /\ ChanIdle
    /\ SfIdle
    /\ VcIdle
    /\ GfIdle
    /\ KdIdle
    /\ NmIdle
    /\ PzIdle
    /\ build = "release"
    /\ reader \in {r \in VoiceReaders : r.loop_params.mode = "LoopContinuous"
                                          /\ r.loop_params.offset = 0}
    /\ got = NoGet
    /\ past = NoPast
    /\ pool = <<>>
    /\ pool_options \in [voice_limit : {None}, fade_out_killing : {TRUE},
                          ignore_range : {<<0, 0>>, <<1, 0>>, <<0, MaxVel>>,
                                          <<MaxVel, MaxVel>>}]
    /\ poolLog = NoPoolCall

EvNext ==
    \/ NoteOnEvent
    \/ NoteOff
    \/ Render

SpecEvents == EvInit /\ [][EvNext]_vars

NmInit ==
    /\ ChanIdle
    /\ SfIdle
    /\ RdIdle
    /\ VcIdle
    /\ GfIdle
    /\ KdIdle
    /\ PlIdle
    /\ NmIdle
    /\ PzIdle

NmNext ==
    \/ GetSpeedMult
    \/ SpawnerAmp
    \/ SamplerNextSample

SpecLaws == NmInit /\ [][NmNext]_vars

LsNext == ParseList

SpecList == NmInit /\ [][LsNext]_vars

PzInit ==
    /\ ChanIdle
    /\ SfIdle
    /\ RdIdle
    /\ VcIdle
    /\ GfIdle
    /\ KdIdle
    /\ PlIdle
    /\ NmIdle
    /\ PzIdle

PzNext ==
    \/ TokenGroup
    \/ TokenRegionFlag
    \/ TokensEnd

SpecParse == PzInit /\ [][PzNext]_vars

KdInit ==
    /\ ChanIdle
    /\ SfIdle
    /\ RdIdle
    /\ VcIdle
    /\ GfIdle
    /\ PlIdle
    /\ NmIdle
    /\ PzIdle
    \* parse_list(): Err(()), or the enabled .sfz paths that exist, in file order.
    /\ sf_list \in {None} \cup {Some(l) : l \in SeqsUpTo(SfPaths, MaxListed)}
    /\ sf_loadable \in SUBSET SfPaths
    /\ SOUNDFONTS = None
    /\ GLOBAL_SYNTH = None
    /\ kdCall = NoKdCall
    /\ stats_threads = <<>>
    /\ CURRENT_VOICE_COUNT = [value |-> 0, writer |-> 0]

KdNext ==
    \/ InitializeKDMAPIStream
    \/ TerminateKDMAPIStream
    \/ TerminateJoin
    \/ StatsPoll
    \/ SendDirectData
    \/ ResetKDMAPIStream

SpecKdmapi == KdInit /\ [][KdNext]_vars

\* The scheduler lets every stats thread take its turn, and a join whose
\* thread has ended returns.
SpecKdmapiFair ==
    /\ KdInit /\ [][KdNext]_vars
    /\ \A t \in 1..MaxThreads : WF_vars(StatsPollOf(t))
    /\ WF_vars(TerminateJoin)

GfInit ==
    /\ ChanIdle
    /\ SfIdle
    /\ VcIdle
    /\ KdIdle
    /\ PlIdle
    /\ NmIdle
    /\ PzIdle
    /\ build \in Builds
    /\ reader \in VoiceReaders
    /\ got = NoGet
    /\ past = NoPast
    /\ GfIdle

GfNext ==
    \/ GraphNextSample
    \/ GraphSignalRelease
    \/ GraphProcessControls
    \/ GraphEnded

SpecGraph == GfInit /\ [][GfNext]_vars

(***************************************************************************)
(* Claims about the channel dispatch matrix.                               *)
(***************************************************************************)
\* The first non-empty list of a family of lists, or the empty list.
FirstNonEmptyOf(lists) ==
    IF \E i \in DOMAIN lists : lists[i] # <<>>
    THEN lists[CHOOSE i \in DOMAIN lists :
                   lists[i] # <<>> /\ \A j \in 1..(i - 1) : lists[j] = <<>>]
    ELSE <<>>

\* The fallback rule as the specification states it.
FallbackRule(kind, b, p, k, v) ==
    LET own == [i \in 1..Len(soundfonts) |-> SfQuery(kind, soundfonts[i], b, p, k, v)]
        piano == [i \in 1..Len(soundfonts) |-> SfQuery(kind, soundfonts[i], 0, 0, k, v)]
    IN  IF \E i \in DOMAIN own : own[i] # <<>>
        THEN FirstNonEmptyOf(own)
        ELSE FirstNonEmptyOf(piano)

\* C1: after rebuild_matrix(bank, preset) has run, every attack cell is the
\* first non-empty attack list of the soundfonts for (bank, preset) in list
\* order, else the first non-empty list for (0, 0), else empty; the release
\* cell follows the same rule over the release lists.
C1_MatrixFollowsFallbackRule ==
    lastCall.op # "new" =>
        \A c \in Cells :
            /\ matrix[c].attack
                  = FallbackRule("attack", lastCall.bank, lastCall.preset, c[1], c[2])
            /\ matrix[c].release
                  = FallbackRule("release", lastCall.bank, lastCall.preset, c[1], c[2])

\* A rebuild for a program no soundfont serves, over a list whose first
\* soundfont has nothing for the cell, has filled a cell from the piano of
\* the second soundfont (scenario S3).
C1_Witness ==
    /\ lastCall.op = "change_program"
    /\ ~lastCall.skipped
    /\ lastCall.bank = MaxBank
    /\ Len(soundfonts) = 2
    /\ \E c \in Cells :
         /\ \A i \in 1..2 :
               SfQuery("attack", soundfonts[i], lastCall.bank, lastCall.preset, c[1], c[2]) = <<>>
         /\ SfQuery("attack", soundfonts[1], 0, 0, c[1], c[2]) = <<>>
         /\ matrix[c].attack # <<>>
         /\ matrix[c].attack = SfQuery("attack", soundfonts[2], 0, 0, c[1], c[2])

\* C2: a change_program(b, p) that directly follows a change_program(b, p)
\* does no rebuild work: it queries no soundfont and leaves the matrix,
\* curr_bank and curr_preset as they were.
C2_SecondRebuildDoesNothing ==
    [][(/\ lastCall.op = "change_program"
        /\ lastCall'.op = "change_program"
        /\ lastCall'.bank = lastCall.bank
        /\ lastCall'.preset = lastCall.preset)
       => (/\ lastCall'.skipped
           /\ lastCall'.queries = 0
           /\ matrix' = matrix
           /\ curr_bank' = curr_bank
           /\ curr_preset' = curr_preset)]_vars

\* The same program was selected twice in a row over a non-empty soundfont
\* list: the first call did the work, the second was skipped.
C2_Witness ==
    /\ lastCall.op = "change_program"
    /\ lastCall.prev = CallOf(lastCall)
    /\ lastCall.skipped
    /\ lastCall.bank # 0
    /\ soundfonts # <<>>
    /\ \E c \in Cells : matrix[c].attack # <<>>

(***************************************************************************)
(* Claims about the sample soundfont table.                                *)
(***************************************************************************)
\* The regions of the loaded SFZ whose key range and velocity range contain
\* (key, vel).
Covering(key, vel) ==
    {i \in DOMAIN sfz_regions :
        /\ sfz_regions[i].keyrange[1] <= key /\ key <= sfz_regions[i].keyrange[2]
        /\ sfz_regions[i].velrange[1] <= vel /\ vel <= sfz_regions[i].velrange[2]}

LastCovering(key, vel) ==
    CHOOSE i \in Covering(key, vel) : \A j \in Covering(key, vel) : j <= i

\* The parameters the specification gives a cell of a region.
CellHoldsRegion(params, region, key) ==
    /\ params.sample = [decoded |-> region.sample_path]
    /\ unique_envelope_params[params.envelope]
         = [attack |-> region.ampeg_envelope.ampeg_attack,
            release |-> IF region.ampeg_envelope.ampeg_release \div 4 >= 1
                        THEN region.ampeg_envelope.ampeg_release \div 4 ELSE 1]
    /\ params.cutoff = region.cutoff
    /\ params.speed_mult
         = <<key, IF region.pitch_keycenter = None THEN key ELSE region.pitch_keycenter[1]>>

\* C3: the table entry at index key*128+vel of a loaded SampleSoundfont is
\* Some if and only if at least one region has key in its key range and vel
\* in its velocity range.
C3_SomeIffRegionCovers ==
    sf_loaded => \A key \in Keys, vel \in Vels :
        (spawner_params_list[key * (MaxVel + 1) + vel] # None) <=> (Covering(key, vel) # {})

\* A soundfont loaded from two regions that leaves one cell filled and
\* another cell empty.
C3_Witness ==
    /\ sf_loaded
    /\ Len(sfz_regions) = 2
    /\ \E c \in Cells, d \in Cells :
         /\ Covering(c[1], c[2]) # {}
         /\ spawner_params_list[c[1] * (MaxVel + 1) + c[2]] # None
         /\ Covering(d[1], d[2]) = {}
         /\ spawner_params_list[d[1] * (MaxVel + 1) + d[2]] = None

\* C4: when two or more regions cover a cell, the cell holds the sample,
\* envelope, speed multiplier and cutoff of the region that comes last in
\* region-list order.
C4_LastRegionWins ==
    sf_loaded => \A key \in Keys, vel \in Vels :
        Cardinality(Covering(key, vel)) >= 2 =>
            /\ spawner_params_list[key * (MaxVel + 1) + vel] # None
            /\ CellHoldsRegion(spawner_params_list[key * (MaxVel + 1) + vel][1],
                               sfz_regions[LastCovering(key, vel)], key)

\* Two regions that differ in sample, envelope and cutoff cover one cell.
C4_Witness ==
    \E key \in Keys, vel \in Vels :
        /\ sf_loaded
        /\ Covering(key, vel) = {1, 2}
        /\ sfz_regions[1].sample_path # sfz_regions[2].sample_path
        /\ sfz_regions[1].cutoff # sfz_regions[2].cutoff
        /\ sfz_regions[1].ampeg_envelope # sfz_regions[2].ampeg_envelope
        /\ Len(unique_envelope_params) = 2
        /\ spawner_params_list[key * (MaxVel + 1) + vel] # None

\* C5 as stated: get_attack_voice_spawners_at(key, vel) returns one spawner
\* per region that matches the cell.
C5_OneSpawnerPerMatchingRegion ==
    spawned.call = "attack" =>
        Len(spawned.vec) = Cardinality(Covering(spawned.key, spawned.vel))

\* C5 amended: when several regions match a cell, the cell does not fan
\* out: get_attack_voice_spawners_at(key, vel) returns exactly one spawner,
\* and it carries the parameters of the last matching region.
C5_SingleSpawnerOfLastRegion ==
    (spawned.call = "attack" /\ Cardinality(Covering(spawned.key, spawned.vel)) >= 2) =>
        /\ Len(spawned.vec) = 1
        /\ spawned.vec[1].vel = spawned.vel
        /\ CellHoldsRegion(
               [sample |-> spawned.vec[1].samples,
                envelope |-> spawned.vec[1].volume_envelope_params,
                cutoff |-> spawned.vec[1].cutoff,
                speed_mult |-> spawned.vec[1].speed_mult],
               sfz_regions[LastCovering(spawned.key, spawned.vel)], spawned.key)

\* The attack spawners of a cell that two different regions match were
\* asked for.
C5_Witness ==
    /\ spawned.call = "attack"
    /\ Covering(spawned.key, spawned.vel) = {1, 2}
    /\ sfz_regions[1].sample_path # sfz_regions[2].sample_path
    /\ spawned.vec # <<>>

(***************************************************************************)
(* Claims about the sample reader.                                         *)
(***************************************************************************)
\* The sample a read at buffer index i yields: the frame, or silence.
SampleAt(i) == IF i < Len(reader.buffer) THEN reader.buffer[i + 1] ELSE 0

\* C6: in LoopContinuous mode with offset 0 and start < end <= length,
\* get(start + n*(end-start) + k) equals get(start + k) for every n >= 0 and
\* 0 <= k < end-start, the position equal to end (n = 1, k = 0) included.
C6_LoopReadsArePeriodic ==
    (/\ got.called
     /\ reader.loop_params.mode = "LoopContinuous"
     /\ reader.loop_params.offset = 0
     /\ got.pos >= reader.loop_params.start)
    => LET start == reader.loop_params.start
           diff == reader.loop_params.end - reader.loop_params.start
           k == (got.pos - start) % diff
       IN  got.val = SampleReader_get(reader, start + k, build).val

\* C7: SampleReader::get never faults: for every position, offset and loop
\* mode it returns the buffer value at the mapped index (pos + offset, taken
\* back by whole loop lengths once it is beyond end in a looping mode), or
\* 0.0 when that index is outside the raw buffer.
C7_GetNeverFaults ==
    got.called =>
        LET p == got.pos + reader.loop_params.offset
            end == reader.loop_params.end
            diff == reader.loop_params.end - reader.loop_params.start
            mapped == IF Looping(reader.loop_params.mode) /\ p > end
                      THEN p - ((p - end) \div diff + 1) * diff
                      ELSE p
        IN  /\ ~got.fault
            /\ got.index = mapped
            /\ got.val = SampleAt(mapped)

\* Reads that cover the cases: a looping read with an offset two loop
\* lengths beyond end, which yields a frame of the loop.
C7_Witness ==
    /\ got.called
    /\ Looping(reader.loop_params.mode)
    /\ reader.loop_params.offset > 0
    /\ got.pos + reader.loop_params.offset
         > reader.loop_params.end + (reader.loop_params.end - reader.loop_params.start)
    /\ got.index >= reader.loop_params.start
    /\ got.index < reader.loop_params.end
    /\ got.val # 0

\* C8: is_past_end(pos) returns true exactly when pos - offset >= length in
\* NoLoop and OneShot modes, and false for every pos in the looping modes.
C8_PastEndExactly ==
    past.called =>
        /\ ~past.fault
        /\ past.val = IF Looping(reader.loop_params.mode)
                      THEN FALSE
                      ELSE past.pos - reader.loop_params.offset >= Len(reader.buffer)

(***************************************************************************)
(* Claims about the voice.                                                 *)
(***************************************************************************)
\* C9: once ended() has returned true on a voice, it returns true on every
\* later call, whatever render_to, signal_release and process_controls
\* calls come in between.
C9_EndedStaysTrue ==
    endedLog.ever => endedLog.last = "true"

\* C10: signal_release is idempotent: a call on a voice that is already
\* releasing does not restart the release stage, so the voice's generator
\* state (hence its later output and the tick at which it ends), its last
\* rendered block and its ended() equal those of the same voice given only
\* the first call, and is_releasing() stays true.
C10_SignalReleaseIdempotent ==
    signals.count >= 1 =>
        /\ VoiceBase_is_releasing(voice)
        /\ voice.sample_generator = shadow.sample_generator
        /\ VoiceBase_ended(voice, reader, build) = VoiceBase_ended(shadow, reader, build)

\* A second signal_release reached the voice in the middle of its release
\* ramp, and the voice has since ended by its envelope while the sample,
\* a looping one, plays on.
C10_Witness ==
    /\ signals.count = 2
    /\ signals.midRelease
    /\ Looping(reader.loop_params.mode)
    /\ Envelope_ended(voice.sample_generator.env)
    /\ endedLog.last = "true"

\* C11: a voice is ended if and only if its sampler is past the end of a
\* non-looping sample (a grabber past end at the current time) or its
\* envelope is ended; for a looping sample the sampler never reports ended,
\* whatever the time, so only the envelope release ends the voice.
C11_EndedIffPastEndOrEnvelope ==
    LET g == voice.sample_generator
        frame == FrameOf(g.sampler.time)
        pastEnd == /\ ~Looping(reader.loop_params.mode)
                   /\ frame - reader.loop_params.offset >= Len(reader.buffer)
    IN  /\ VoiceBase_ended(voice, reader, build)
             = IF pastEnd \/ Envelope_ended(g.env) THEN "true" ELSE "false"
        /\ Looping(reader.loop_params.mode)
             => Sampler_ended(g.sampler, reader, build) = "false"

(***************************************************************************)
(* Claims about the DSP graph.                                             *)
(***************************************************************************)
\* C12: signal_release propagates through the graph without acting on any
\* node but the envelope: the sampler's time accumulator (and its pitch) and
\* the two filters of the cutoff wrapper are left as they were, and the call
\* reaches the envelope below them, which is releasing or ended afterwards.
C12_SignalReleaseOnlyForwards ==
    [][graphLog'.op = "signal_release"
       => /\ graph'.v.sampler.time = graph.v.sampler.time
          /\ graph'.v.sampler = graph.v.sampler
          /\ graph'.cutoff1 = graph.cutoff1
          /\ graph'.cutoff2 = graph.cutoff2
          /\ graph'.v.env.stage >= StageRelease]_vars

\* A signal_release arrived after the sampler had advanced and the filters
\* had taken up signal, and it moved the envelope into the release stage
\* from a level above zero.
C12_Witness ==
    /\ graphLog.op = "signal_release"
    /\ graph.v.sampler.time > 0
    /\ graph.cutoff1.state > 0
    /\ graph.cutoff2.state > 0
    /\ graph.v.env.stage = StageRelease
    /\ graph.v.env.t = 0
    /\ graph.v.env.value > 0

(***************************************************************************)
(* Claims about loading a sample soundfont.                                *)
(***************************************************************************)
\* The sample files the regions of the SFZ refer to.
ReferencedSamples ==
    {sample_cache_from_region_params(sfz_regions[i]).path : i \in DOMAIN sfz_regions}

\* No SampleSoundfont value exists: new returned an Err and built no table.
NothingExposed ==
    /\ load_result \in {"IOError", "AudioLoadError"}
    /\ ~sf_loaded
    /\ \A idx \in TableIndexes : spawner_params_list[idx] = None

\* C15: loading an SFZ in which no region is found makes the loader return
\* an error: SampleSoundfont::new returns Err, not an Ok soundfont whose
\* table is entirely empty.
C15_NoRegionsIsAnError ==
    (load_result # "none" /\ sfz_regions = <<>>) => NothingExposed

\* C16: a partially loaded soundfont is never exposed: if reading the SFZ or
\* decoding any one of its sample files fails, SampleSoundfont::new returns
\* Err and no SampleSoundfont value exists; an Ok result implies that every
\* sample referenced by every region was decoded.
C16_NoPartialSoundfont ==
    /\ (load_result # "none"
          /\ (~sfz_files.readable \/ ReferencedSamples \cap sfz_files.broken # {}))
        => NothingExposed
    /\ load_result = "Ok"
        => /\ sfz_files.readable
           /\ ReferencedSamples \cap sfz_files.broken = {}
           /\ sf_loaded

\* A load that failed on one sample after another sample of the same SFZ,
\* whose region covers a cell, had decoded.
C16_Witness ==
    /\ load_result = "AudioLoadError"
    /\ sfz_files.readable
    /\ \E i, j \in DOMAIN sfz_regions :
         /\ sfz_regions[i].sample_path \notin sfz_files.broken
         /\ sfz_regions[i].keyrange = <<0, MaxKey>>
         /\ sfz_regions[j].sample_path \in sfz_files.broken
    /\ NothingExposed

(***************************************************************************)
(* Claims about spawning.                                                  *)
(***************************************************************************)
\* C13: a spawner template is never mutated after construction: spawn_voice
\* leaves the shared SampleVoiceSpawnerParams, including the compiled
\* envelope table it references, unchanged for every VoiceControlData,
\* control data with an attack or release override included.
C13_TemplateNeverMutated ==
    [][sf_loaded
       => /\ spawner_params_list' = spawner_params_list
          /\ unique_envelope_params' = unique_envelope_params
          /\ shared_envelopes' = shared_envelopes]_vars

\* The stage lengths a voice's envelope has: those of the table it holds.
VoiceEnvelope(v) == shared_envelopes[v.envelope]

\* The stage lengths compiled from the region the voice was spawned from.
RegionEnvelope(v) == to_envelope_params(unique_envelope_params[v.envelope])

\* C14: an attack or release override is per voice: it rewrites the attack or
\* release length of the voice spawned with it only.  Voices already playing,
\* voices spawned later with no override and voices of other regions sharing
\* an equal envelope descriptor keep the lengths compiled from their region.
C14_OverridesArePerVoice ==
    \A i \in DOMAIN spawned_voices :
        LET v == spawned_voices[i]
        IN  /\ VoiceEnvelope(v).attack
                 = IF v.attack # None THEN v.attack[1] ELSE RegionEnvelope(v).attack
            /\ VoiceEnvelope(v).release
                 = IF v.release # None THEN v.release[1] ELSE RegionEnvelope(v).release

(***************************************************************************)
(* Claims about the KDMAPI entry points.                                   *)
(***************************************************************************)
\* The configured soundfonts that load.
RemainingSoundfonts ==
    IF sf_list = None THEN {}
    ELSE {sf_list[1][i] : i \in DOMAIN sf_list[1]} \cap sf_loadable

\* C17: a load error is fatal to that soundfont only: when one soundfont of
\* the configured list fails to load, InitializeKDMAPIStream still completes,
\* the synth is installed and the remaining soundfonts are sent to the
\* channels.
C17_LoadErrorSkipsOneSoundfont ==
    kdCall.op = "InitializeKDMAPIStream"
    => /\ kdCall.result = "1"
       /\ GLOBAL_SYNTH # None
       /\ {GLOBAL_SYNTH[1].soundfonts[i] : i \in DOMAIN GLOBAL_SYNTH[1].soundfonts}
            = RemainingSoundfonts

(***************************************************************************)
(* Claims about the channel voice pool.                                    *)
(***************************************************************************)
\* C18: note_off(key) signals release only to voices that were spawned by
\* that key and are not already releasing: those receive one signal_release
\* call and are releasing afterwards; voices of other keys and voices
\* already releasing receive no call and their state is unchanged.
C18_NoteOffSignalsOnlyItsKey ==
    [][poolLog'.op = "note_off"
       => /\ Len(pool') = Len(pool)
          /\ \A i \in DOMAIN pool :
               IF pool[i].key = poolLog'.key /\ ~pool[i].base.releasing
               THEN /\ pool'[i].signals = pool[i].signals + 1
                    /\ pool'[i].base.releasing
                    /\ pool'[i].base.sample_generator.env.stage >= StageRelease
               ELSE pool'[i] = pool[i]]_vars

\* A note_off met a voice of its key that was already releasing, signalled
\* another voice of its key, and a voice of the other key has never been
\* signalled.
C18_Witness ==
    /\ poolLog.op = "note_off"
    /\ poolLog.n >= 1
    /\ poolLog.k >= 1
    /\ \E i, j, h \in DOMAIN pool :
         /\ pool[i].key = poolLog.key /\ pool[i].signals = 1
         /\ pool[i].base.sample_generator.env.stage = StageRelease
         /\ pool[i].base.sample_generator.env.t > 0
         /\ pool[j].key = poolLog.key /\ pool[j].signals = 1
         /\ pool[j].base.sample_generator.env.t = 0
         /\ pool[h].key # poolLog.key /\ pool[h].signals = 0
         /\ ~pool[h].base.releasing

\* The positions of the voices a note_on kills: killed after it, not before.
NewlyKilled == {i \in DOMAIN pool : pool'[i].killed /\ ~pool[i].killed}

C20_RenderDropsEndedVoices ==
    [][poolLog'.op = "render"
       => /\ \A i \in DOMAIN pool' :
               Generator_ended(pool'[i].base.sample_generator, reader, build) = "false"
          /\ pool' = SelectSeq(Pool_mix(pool, reader, build),
                               LAMBDA e : Generator_ended(e.base.sample_generator,
                                                          reader, build) # "true")]_vars

\* A render dropped a voice and kept two different ones.
C20_Witness ==
    /\ poolLog.op = "render"
    /\ poolLog.n >= 1
    /\ Len(pool) >= 2
    /\ pool[1] # pool[2]
    /\ pool[1].base.sample_generator.sampler.time
         > pool[2].base.sample_generator.sampler.time

C22_PitchLaw ==
    numCall.op = "get_speed_mult_from_keys"
    => LET key == numCall.key
           base == IF numCall.pitch_keycenter = None THEN key
                   ELSE numCall.pitch_keycenter[1]
           v == numCall.value
           fromTwo == IF v[2] = -22 THEN 2 * (v[1] - 2^23)
                      ELSE IF v[2] = -23 THEN 2^24 - v[1]
                      ELSE 2^24
       IN  /\ v = F32Div(F32Ulps(FREQS[key], numCall.off[key]),
                         F32Ulps(FREQS[base], numCall.off[base]))
           /\ base = key => v = <<2^23, -23>>
           /\ key = base + 12 => fromTwo <= 2^23 \div 1000000

\* The speed multiplier of a key an octave above its pitch_keycenter, from
\* two table entries that are off in opposite directions: not exactly 2.0.
C22_Witness ==
    /\ numCall.op = "get_speed_mult_from_keys"
    /\ numCall.pitch_keycenter # None
    /\ numCall.key = numCall.pitch_keycenter[1] + 12
    /\ numCall.off[numCall.key] = 1
    /\ numCall.off[numCall.pitch_keycenter[1]] = -1
    /\ numCall.value # <<2^23, -22>>

\* C23: the amp baked into a spawner is 1.04^(vel - 127): amp(127) is
\* exactly 1.0, amp(0) is below 1e-2, amp(vel) <= amp(vel + 1), and
\* amp(vel + 1) / amp(vel) is 1.04f32 to within 4 units in the last
\* place, whatever powf's error on either side.
C23_AmpLaw ==
    numCall.op = "SampledVoiceSpawner_new"
    => LET vel == numCall.vel
           amp == numCall.amp
       IN  /\ vel = MidiMax => amp = <<2^23, -23>>
           /\ vel = 0 => (amp[2] < -30 \/ (amp[2] = -30 /\ amp[1] <= 2^30 \div 100))
           /\ vel < MidiMax =>
                \A off \in -1..1 :
                    LET next == SampledVoiceSpawner_amp(vel + 1, off)
                        ratio == F32Div(next, amp)
                    IN  /\ F32Le(amp, next)
                        /\ ratio[2] = -23
                        /\ ratio[1] - 8724152 \in -4..4

\* The amp of velocity 0, with powf off by one unit in the last place.
C23_Witness ==
    /\ numCall.op = "SampledVoiceSpawner_new"
    /\ numCall.vel = 0
    /\ numCall.amp = F32Ulps(AMPS[1], -1)

(***************************************************************************)
(* Claims about the SFZ parser.                                            *)
(***************************************************************************)
\* C24: the sample path of every region the parser produces is the parent
\* directory of the SFZ file joined with the default_path its builder holds,
\* if it holds one, joined with its sample opcode.
C24_SamplePathResolved ==
    [][Len(built_regions') = Len(built_regions) + 1
       => LET builder == group_data_stack[Len(group_data_stack)]
              sample == PathBuf_from(builder.sample[1])
          IN  built_regions'[Len(built_regions')].sample_path
                = IF builder.default_path = None
                  THEN PathBuf_join(BasePath, sample)
                  ELSE PathBuf_join(PathBuf_join(BasePath,
                                        PathBuf_from(builder.default_path[1])),
                                    sample)]_vars

\* Two regions were built from the same relative sample: one under the
\* relative default_path "d/", one under the absolute default_path "/e".
C24_Witness ==
    /\ Len(built_regions) = 2
    /\ built_regions[1].sample_path = [abs |-> TRUE, parts |-> <<"s", "d", "a">>]
    /\ built_regions[2].sample_path = [abs |-> TRUE, parts |-> <<"e", "a">>]

\* C28: the RegionParams built for a <region> are those of the builder
\* defaults overlaid, in order, with the opcodes of the <control>, <master>
\* and <group> headers that enclose it and then with its own; opcodes
\* written under an earlier sibling header do not carry into it.
C28_RegionInheritsFromEnclosingHeaders ==
    [][Len(built_regions') = Len(built_regions) + 1
       => LET opcodes == parseLog.open[4] @@ parseLog.open[3]
                             @@ parseLog.open[2] @@ parseLog.open[1]
              has(name) == name \in DOMAIN opcodes
              enclosing ==
                  [RegionParamsBuilder_default EXCEPT
                      !.key = IF has("Key") THEN Some(opcodes["Key"]) ELSE @,
                      !.sample = IF has("Sample") THEN Some(opcodes["Sample"]) ELSE @,
                      !.default_path = IF has("DefaultPath")
                                       THEN Some(opcodes["DefaultPath"]) ELSE @]
          IN  Some(built_regions'[Len(built_regions')])
                = RegionParamsBuilder_build(enclosing, BasePath)]_vars

\* C25: the sampler reads before it advances.  At each lane the index is
\* floor(time) and the fractional frac(time) of the accumulator before that
\* lane's speed is added: the first index of a new voice is 0, the index at
\* lane j is the floor of the sum of the speeds of all earlier lanes, and
\* after n lanes the accumulator is the sum of the n speeds.
C25_ReadThenAdvance ==
    numCall.op = "next_sample"
    => LET RECURSIVE Sum(_, _)
           Sum(speeds, n) == IF n = 0 THEN 0 ELSE Sum(speeds, n - 1) + speeds[n]
           n == Len(numCall.speeds)
       IN  /\ Len(numCall.indexes) = n
           /\ Len(numCall.fractionals) = n
           /\ numCall.indexes[1] = 0
           /\ \A j \in 1..n :
                 /\ numCall.indexes[j] = Sum(numCall.speeds, j - 1) \div TimeDen
                 /\ numCall.fractionals[j] = Sum(numCall.speeds, j - 1) % TimeDen
           /\ numCall.sampler.time = Sum(numCall.speeds, n)

\* Two blocks with different speeds in every lane; a lane read at a
\* fractional position.
C25_Witness ==
    /\ numCall.op = "next_sample"
    /\ Len(numCall.speeds) = 2 * Lanes
    /\ \A j \in 1..(2 * Lanes - 1) : numCall.speeds[j] # numCall.speeds[j + 1]
    /\ \E j \in 1..(2 * Lanes) : numCall.fractionals[j] # 0

\* C26: the voice spawn_voice builds from a spawner whose cutoff is Some has
\* the cutoff filter stage (SIMDStereoVoiceCutoff) in its graph, and the
\* voice built from a spawner whose cutoff is None has no filter stage.
C26_CutoffStageIffSome ==
    [][Len(spawned_voices') = Len(spawned_voices) + 1
       => \A key \in Keys, vel \in Vels, control \in SpawnControls :
            LET spawners == SampleGetAttack(spawner_params_list, key, vel)
                v == spawned_voices'[Len(spawned_voices')]
            IN  (/\ spawners # <<>>
                 /\ v = spawn_voice(spawners[1], control, shared_envelopes).voice)
                => ((\E i \in DOMAIN v.graph : v.graph[i] = "SIMDStereoVoiceCutoff")
                      <=> spawners[1].cutoff # None)]_vars

\* C27: once set_soundfonts has been called, after every set_soundfonts and
\* change_program the matrix is what the fallback rule yields for
\* (curr_bank, curr_preset) over the current soundfont list.  set_soundfonts
\* always rebuilds and leaves the program at (0, 0) whatever was selected
\* before, so a change_program(0, 0) after it does no work and a
\* change_program to the program selected before it rebuilds.
C27_MatrixFollowsCurrentProgram ==
    /\ [](lastCall.op # "new"
            => /\ curr_bank # None /\ curr_preset # None
               /\ \A c \in Cells :
                     /\ matrix[c].attack
                           = FallbackRule("attack", curr_bank[1], curr_preset[1], c[1], c[2])
                     /\ matrix[c].release
                           = FallbackRule("release", curr_bank[1], curr_preset[1], c[1], c[2])
               /\ lastCall.op = "set_soundfonts"
                     => /\ ~lastCall.skipped
                        /\ curr_bank = Some(0)
                        /\ curr_preset = Some(0))
    /\ [][(lastCall.op = "set_soundfonts" /\ lastCall'.op = "change_program")
           => IF lastCall'.bank = 0 /\ lastCall'.preset = 0
              THEN /\ lastCall'.skipped
                   /\ lastCall'.queries = 0
                   /\ matrix' = matrix
              ELSE CallOf(lastCall') = lastCall.prev => ~lastCall'.skipped]_vars

\* A program other than (0, 0) was selected and then the soundfont list was
\* replaced by a non-empty one: the matrix was rebuilt and the program is
\* (0, 0).
C27_Witness ==
    /\ lastCall.op = "set_soundfonts"
    /\ lastCall.prev[1] = "change_program"
    /\ lastCall.prev[2] # 0
    /\ ~lastCall.skipped
    /\ lastCall.queries > 0
    /\ curr_bank = Some(0)
    /\ curr_preset = Some(0)
    /\ \E c \in Cells : matrix[c].attack # <<>>

\* C29: for a non-looping reader with any offset, is_past_end(pos) is true
\* exactly when get(pos) reads at or beyond the end of the buffer, that is
\* when the index pos + offset it hands to the buffer is >= length.
C29_PastEndIffGetBeyondEnd ==
    (past.called /\ ~Looping(reader.loop_params.mode))
    => (past.val <=> ReaderIndex(reader, past.pos, build) >= Len(reader.buffer))

\* C30: is_past_end never underflows or faults: in NoLoop and OneShot modes
\* the unsigned subtraction pos - offset is well defined at every position
\* a voice reaches from time 0, positions below the offset included.
C30_PastEndNeverUnderflows ==
    LET pos == FrameOf(voice.sample_generator.sampler.time)
    IN  /\ ~SampleReader_is_past_end(reader, pos, build).fault
        /\ ~Looping(reader.loop_params.mode)
             => USub(pos, reader.loop_params.offset, "debug") # Fault

\* C31: in a looping mode with start < end, the index SampleReader::get
\* reads is at most end for every pos, and whenever pos + offset > end it
\* lies in [start, end); the subtraction pos - diff * loop_count never
\* underflows.
C31_LoopIndexInRange ==
    (got.called /\ Looping(reader.loop_params.mode))
    => LET start == reader.loop_params.start
           end == reader.loop_params.end
       IN  /\ ~got.fault
           /\ ReaderIndex(reader, got.pos, "debug") # Fault
           /\ got.index <= end
           /\ got.pos + reader.loop_params.offset > end
                 => (start <= got.index /\ got.index < end)

\* A looping read beyond end, over a loop of more than one frame that starts
\* after frame 0, that lands on the last frame of the loop.
C31_Witness ==
    /\ got.called
    /\ Looping(reader.loop_params.mode)
    /\ reader.loop_params.start > 0
    /\ reader.loop_params.end - reader.loop_params.start > 1
    /\ got.pos + reader.loop_params.offset > reader.loop_params.end
    /\ got.index = reader.loop_params.end - 1

\* C37: in parse_sf_root, after every token, whenever current_group is
\* Some(g) the header stack is as long as the level of g (control 1,
\* master 2, group 3, region 4); so the stack is non-empty whenever
\* current_group is Region, and neither pop_back().unwrap() fails.
C37_StackLengthIsGroupLevel ==
    /\ ~parseLog.panic
    /\ (~parseLog.done /\ current_group # None)
         => /\ Len(group_data_stack) = get_group_level(current_group[1])[1]
            /\ current_group = Some("Region") => group_data_stack # <<>>

\* A region was built when a <control> header closed it: the stack went
\* from four builders to one.
C37_Witness ==
    /\ ~parseLog.done
    /\ built_regions # <<>>
    /\ current_group = Some("Control")
    /\ Len(group_data_stack) = 1

\* C32: parse_sf_root emits exactly one RegionParams, in file order, for
\* each <region> whose accumulated opcodes include both a sample and a key,
\* at the moment the region is closed by the next header of any kind or by
\* the end of input; a region lacking sample or key is dropped silently and
\* leaves the regions emitted before it as they are.
C32_OneRegionPerCompleteHeader ==
    [][LET n == Len(built_regions)
           builder == group_data_stack[Len(group_data_stack)]
           flag_read == /\ current_group' = Some("Region")
                        /\ parseLog'.open[4] # NoOpcodes
           closes == /\ current_group = Some("Region")
                     /\ \/ parseLog'.done
                        \/ parseLog'.n = parseLog.n + 1 /\ ~flag_read
       IN  /\ ~parseLog'.panic
           /\ Len(built_regions') \in {n, n + 1}
           /\ SubSeq(built_regions', 1, n) = built_regions
           /\ Len(built_regions') = n + 1 <=> (/\ closes
                                              /\ builder.sample # None
                                              /\ builder.key # None)
           /\ Len(built_regions') = n + 1
                 => /\ built_regions'[n + 1].key = builder.key[1]
                    /\ built_regions'[n + 1].sample_path
                          = RegionParamsBuilder_build(builder, BasePath)[1].sample_path]_vars

\* The input ended on a region that has no sample and was dropped, after a
\* region that was emitted.
C32_Witness ==
    /\ parseLog.done
    /\ current_group = Some("Region")
    /\ Len(built_regions) = 1
    /\ Len(group_data_stack) = 3
    /\ group_data_stack[3].sample = None
    /\ "Sample" \notin DOMAIN parseLog.open[4]

\* C33: the soundfont list InitializeKDMAPIStream sends to the channels has
\* the order of the enabled entries of the soundfont list file, so the
\* first listed soundfont has priority; two initialisations over the same
\* list file send the same order.
C33_SoundfontsInListOrder ==
    /\ []((kdCall.op = "InitializeKDMAPIStream" /\ kdCall.result = "1")
            => LET sfs == GLOBAL_SYNTH[1].soundfonts
                   listed == IF sf_list = None THEN <<>> ELSE sf_list[1]
                   first(path) == CHOOSE i \in DOMAIN listed :
                                     /\ listed[i] = path
                                     /\ \A j \in 1..(i - 1) : listed[j] # path
               IN  \A i, j \in DOMAIN sfs : i < j => first(sfs[i]) < first(sfs[j]))
    /\ [][(GLOBAL_SYNTH # None /\ GLOBAL_SYNTH' # None)
           => GLOBAL_SYNTH'[1].soundfonts = GLOBAL_SYNTH[1].soundfonts]_vars

\* C34: across any sequence of InitializeKDMAPIStream and
\* TerminateKDMAPIStream calls, two Initialize calls with no Terminate
\* between them included, at most one stats-polling thread is alive at a
\* time, and after a TerminateKDMAPIStream has returned no stats thread is
\* alive or writes CURRENT_VOICE_COUNT.
C34_AtMostOneStatsThread ==
    /\ [](LET alive == {t \in DOMAIN stats_threads : stats_threads[t].alive}
          IN  /\ Cardinality(alive) <= 1
              /\ (kdCall.op = "TerminateKDMAPIStream" /\ kdCall.result = "1")
                    => alive = {})
    /\ [][(kdCall.op = "TerminateKDMAPIStream" /\ kdCall.result = "1"
             /\ kdCall' = kdCall)
           => CURRENT_VOICE_COUNT' = CURRENT_VOICE_COUNT]_vars

\* C35: TerminateKDMAPIStream called after an InitializeKDMAPIStream
\* eventually returns: it sets the killed flag, the stats thread sees it on
\* its next poll and ends, and the join completes.  Afterwards GLOBAL_SYNTH
\* is None, a second Terminate does nothing, and SendDirectData and
\* ResetKDMAPIStream do nothing and do not fault.
C35_TerminateReturns ==
    /\ (kdCall.result = "joining")
          ~> (kdCall.op = "TerminateKDMAPIStream" /\ kdCall.result = "1")
    /\ []((kdCall.op = "TerminateKDMAPIStream" /\ kdCall.result = "1")
            => /\ GLOBAL_SYNTH = None
               /\ kdCall.join # 0
                     => /\ stats_threads[kdCall.join].killed
                        /\ ~stats_threads[kdCall.join].alive)
    /\ [][/\ (kdCall.result # "joining" /\ kdCall'.result = "joining")
              => /\ stats_threads'[kdCall'.join].killed
                 /\ GLOBAL_SYNTH' = None
          /\ (/\ GLOBAL_SYNTH = None
              /\ kdCall.result # "joining"
              /\ kdCall' # kdCall
              /\ kdCall'.op \in {"TerminateKDMAPIStream", "SendDirectData",
                                  "ResetKDMAPIStream"})
              => /\ kdCall'.result \in {"1", "()"}
                 /\ ~kdCall'.sent
                 /\ kdCall'.join = 0
                 /\ GLOBAL_SYNTH' = None
                 /\ stats_threads' = stats_threads]_vars

\* One Initialize, polls of its stats thread, and a Terminate that has
\* returned after the thread ended.
C35_Witness ==
    /\ kdCall.op = "TerminateKDMAPIStream"
    /\ kdCall.result = "1"
    /\ kdCall.join = 1
    /\ Len(stats_threads) = 1
    /\ stats_threads[1].killed
    /\ ~stats_threads[1].alive
    /\ CURRENT_VOICE_COUNT.writer = 1
    /\ GLOBAL_SYNTH = None

\* C36: parse_list is total over file contents: for every content of the
\* soundfont list file, entries cut off right after sf.path or sf.enabled
\* included, its scanning loop terminates and it returns Ok or Err, no
\* slice operation faulting.
C36_ParseListIsTotal ==
    numCall.op = "parse_list"
    => /\ ~numCall.returned.panic
       /\ numCall.returned.result \in {"Ok", "Err"}
       /\ numCall.file # None => numCall.returned.turns <= Len(numCall.file[1]) + 1

====
